---------------------------- MODULE Spec2Model ----------------------------
(***************************************************************************)
(* Lenia-style continuous cellular automaton engines of the repository:    *)
(*   "direct" : src/unnamed/part_000 (lines 308-571), sparse ring kernel,  *)
(*              toroidal direct convolution, camera controls;              *)
(*   "fft"    : src/unnamed/part_001, dense kernel, transform-domain       *)
(*              convolution, Lorenz-modulated growth parameters;           *)
(*   "array"  : src/Lenia2.main.go, fixed arrays, inline Gaussian kernel.  *)
(*                                                                         *)
(* Numbers.  float64/float32 values are modelled in fixed point: a real v  *)
(* is the integer v * ONE (thousandths).  exp, tanh and Hypot are computed *)
(* by integer routines (ExpNeg, Tanh, Hypot) instead of the math library.  *)
(* A normalised kernel weight is kept as the exact fraction num/den that   *)
(* the code's "w /= sum" produces.  The grid, the kernel radius and the    *)
(* initial blob are scaled down (GridW, GridH, Radius, BlobRadius,         *)
(* BlobSpread); everything else keeps the program's constants.             *)
(***************************************************************************)
EXTENDS Integers, Sequences, FiniteSets, TLC

VARIABLES
    g,        \* the Game object (part_000 / part_001) or the globals of Lenia2
    pc,       \* "idle": between host-loop calls; "loop": inside step's cell loop
    cursor,   \* number of cells the running step has written (row-major)
    U,        \* fft variant: the activity grid local to the running step
    writes,   \* writes[y][x]: writes to the next buffer by the running/last step
    tick0,    \* the Game as it was when the running/last step was entered
    ticks,    \* completed ticks
    drawn,    \* what Draw / drawField read, if called since the last update
    h,        \* a second engine, used by the two-run specifications
    sh,       \* the offset by which h's initial field was shifted
    events,   \* the phases of the running/last step, in the order they ran
    args,     \* the arguments of a function called on its own
    ret,      \* what that call returned
    world,    \* a particle program: its particles, its lists, its main loop
    pass,     \* the rule call in progress: WaitGroup counter and workers
    log       \* what the passes and updates of the particle program did

vars == <<g, pc, cursor, U, writes, tick0, ticks, drawn, h, sh, events, args, ret,
          world, pass, log>>

\* the variables of the calls of single functions
call == <<args, ret>>

\* the variables of the particle programs
sim == <<world, pass, log>>

----------------------------------------------------------------------------
(* Bounds of the model *)

GridW == 5
GridH == 5
Radius == 2
BlobRadius == 2
BlobSpread == 1
MaxTicks == 3
ShiftTicks == 1

----------------------------------------------------------------------------
(* Fixed-point arithmetic *)

ONE == 10 * 10 * 10

Abs(a) == IF a >= 0 THEN a ELSE -a

\* Division rounding toward zero (b > 0).
FDiv(a, b) == IF a >= 0 THEN a \div b ELSE -((-a) \div b)

\* Fixed-point product of two fixed-point numbers.
Mul(a, b) == FDiv(a * b, ONE)

\* Go's % operator: the remainder has the sign of the dividend.
GoRem(x, m) == IF x >= 0 THEN x % m ELSE -((-x) % m)

RECURSIVE SqrtSearch(_, _, _)
SqrtSearch(n, lo, hi) ==
    IF lo >= hi THEN lo
    ELSE LET mid == (lo + hi + 1) \div 2
         IN  IF mid * mid <= n THEN SqrtSearch(n, mid, hi)
             ELSE SqrtSearch(n, lo, mid - 1)

\* floor(sqrt(n)) for 0 <= n < 2^31
ISqrt(n) == SqrtSearch(n, 0, IF n < 46340 THEN n ELSE 46340)

\* math.Hypot on integer arguments, fixed-point result
Hypot(dx, dy) == ISqrt((dx * dx + dy * dy) * ONE * ONE)

\* 1000 * exp(-k/4), k = 0..33
ExpTab == <<1000, 779, 607, 472, 368, 287, 223, 174, 135, 105, 82, 64, 50,
            39, 30, 24, 18, 14, 11, 9, 7, 5, 4, 3, 2, 2, 2, 1, 1, 1, 1, 0,
            0, 0>>

\* The fixed-point quotient a / c of two numbers of the same scale (a >= 0,
\* c > 0), without leaving 32 bits; quotients of 100 or more are reported as
\* 100, where exp(-t) has long been 0.
Ratio(a, c) ==
    LET q == a \div c
        r == a % c
    IN  IF q >= 100 THEN 100 * ONE
        ELSE IF c >= ONE * ONE THEN q * ONE + r \div (c \div ONE)
        ELSE q * ONE + (r * ONE) \div c

\* math.Exp(-t) for fixed-point t >= 0, linear between table points
ExpNeg(t) ==
    LET k == t \div 250
        r == t % 250
    IN  IF k + 2 > Len(ExpTab) THEN 0
        ELSE ExpTab[k + 2] + ((ExpTab[k + 1] - ExpTab[k + 2]) * (250 - r)) \div 250

\* math.Tanh for fixed-point t
Tanh(t) ==
    LET e == ExpNeg(2 * Abs(t))
        v == FDiv((ONE - e) * ONE, ONE + e)
    IN  IF t >= 0 THEN v ELSE -v

----------------------------------------------------------------------------
(* Grids *)

Rows == 0 .. GridH - 1
Cols == 0 .. GridW - 1
NCells == GridW * GridH

ZeroGrid == [y \in Rows |-> [x \in Cols |-> 0]]

SetCell(G, y, x, v) == [G EXCEPT ![y][x] = v]

CellY(c) == c \div GridW
CellX(c) == c % GridW

----------------------------------------------------------------------------
(* part_000: utilities *)

\* clamp without its lower guard
clampNoFloor(v, a, b) == IF v > b THEN b ELSE v

clamp(v, a, b) == IF v < a THEN a ELSE IF v > b THEN b ELSE v

\* wrap without the branch for negative x
wrapGoRem(x, m) == GoRem(x, m)

\* indices held at the edge instead of wrapped
wrapEdge(x, m) == IF x < 0 THEN 0 ELSE IF x >= m THEN m - 1 ELSE x

wrap(x, m) == IF x >= 0 THEN GoRem(x, m) ELSE GoRem(GoRem(x, m) + m, m)


----------------------------------------------------------------------------
(* part_000: kernel builder, growth, construction *)

shellSigma == 150

\* the float64 value of 0/0
NaN == "NaN"

\* ceil of a fixed-point number, as an integer
Ceil(R) == -((-R) \div ONE)

RECURSIVE SumW(_)
SumW(s) == IF s = <<>> THEN 0 ELSE Head(s).w + SumW(Tail(s))

\* the closure Kc of buildKernel
Kc(rNorm) ==
    LET x == FDiv((rNorm - 500) * ONE, shellSigma)
    IN  ExpNeg(FDiv(Mul(x, x), 2))

\* the offsets at distance exactly R left out
KernelRawStrict(R) ==
    LET Ri   == Ceil(R)
        n    == IF Ri < 0 THEN 0 ELSE 2 * Ri + 1
        off  == [i \in 1 .. n * n |->
                    [dx |-> ((i - 1) % n) - Ri, dy |-> ((i - 1) \div n) - Ri]]
        in   == SelectSeq(off, LAMBDA o : Hypot(o.dx, o.dy) < R)
    IN  [i \in 1 .. Len(in) |->
            [dx |-> in[i].dx, dy |-> in[i].dy,
             w  |-> Kc(FDiv(Hypot(in[i].dx, in[i].dy) * ONE, R))]]

\* The dy/dx double loop of buildKernel: offsets in the order of the loops,
\* kept when dist <= R, each with its unnormalised weight.
KernelRaw(R) ==
    LET Ri   == Ceil(R)
        n    == IF Ri < 0 THEN 0 ELSE 2 * Ri + 1
        off  == [i \in 1 .. n * n |->
                    [dx |-> ((i - 1) % n) - Ri, dy |-> ((i - 1) \div n) - Ri]]
        in   == SelectSeq(off, LAMBDA o : Hypot(o.dx, o.dy) <= R)
    IN  [i \in 1 .. Len(in) |->
            [dx |-> in[i].dx, dy |-> in[i].dy,
             w  |-> Kc(FDiv(Hypot(in[i].dx, in[i].dy) * ONE, R))]]

\* the weights left as computed, the sum not divided out
buildKernelNoNorm(R) ==
    IF R = 0 THEN <<[dx |-> 0, dy |-> 0, w |-> NaN]>>
    ELSE
    LET raw == KernelRaw(R)
    IN  [i \in 1 .. Len(raw) |->
            [dx |-> raw[i].dx, dy |-> raw[i].dy,
             w  |-> [num |-> raw[i].w, den |-> ONE]]]

\* buildKernel of part_000: every weight divided by the sum of the weights.
\* A weight is the fraction num/den.  For R = 0 the only offset kept is
\* (0, 0), with rn = 0/0: its weight is NaN (there is no check of R).
buildKernel(R) ==
    IF R = 0 THEN <<[dx |-> 0, dy |-> 0, w |-> NaN]>>
    ELSE
    LET raw == KernelRaw(R)
        sum == SumW(raw)
    IN  [i \in 1 .. Len(raw) |->
            [dx |-> raw[i].dx, dy |-> raw[i].dy,
             w  |-> [num |-> raw[i].w, den |-> sum]]]

\* the guard testing for sigma = 0 only
growthZeroOnly(u, mu, sigma) ==
    IF sigma = 0 THEN 0
    ELSE 2 * ExpNeg(Ratio((u - mu) * (u - mu), 2 * sigma * sigma)) - ONE

growth(u, mu, sigma) ==
    IF sigma <= 0 THEN 0
    ELSE 2 * ExpNeg(Ratio((u - mu) * (u - mu), 2 * sigma * sigma)) - ONE

dtDefault == 80
muDefault == 300
sigDefault == 60
blobAmp == 800
camZoomInit == 4000

\* rand.Float64() draws from [0,1); the draws the model follows
RandVals == {0, 999}

\* The cells NewGame overwrites with a random value (rand.Float64() < 0.001),
\* each with the second draw it uses: a partial map cell index -> draw.
Perturbations ==
    {<<>>} \cup { [c \in {k} |-> r] : k \in 0 .. NCells - 1, r \in RandVals }

Perturbed(P, y, x) == (y * GridW + x) \in DOMAIN P

\* The blob loop of NewGame (part_000): the field it leaves in A.
InitField(P) ==
    LET cx == GridW \div 2
        cy == GridH \div 2
    IN  [y \in Rows |-> [x \in Cols |->
            LET d == Hypot(x - cx, y - cy)
                a == IF d < BlobRadius * ONE
                     THEN Mul(blobAmp,
                              ExpNeg(FDiv(d * d, 2 * BlobSpread * BlobSpread * ONE)))
                     ELSE 0
            IN  IF Perturbed(P, y, x)
                THEN Mul(P[y * GridW + x], 800) + 100
                ELSE a]]

NoLorenz == [x |-> 0, y |-> 0, z |-> 0]

\* NewGame of part_000.  A and Anext name the two backing grids of bufs.
NewGame(P) ==
    [variant |-> "direct",
     bufs |-> <<InitField(P), ZeroGrid>>, A |-> 1, Anext |-> 2,
     kernel |-> buildKernel(Radius * ONE), kernelFFT |-> ZeroGrid,
     dt |-> dtDefault, mu |-> muDefault, sigma |-> sigDefault,
     colorBias |-> 0, lorenz |-> NoLorenz,
     camX |-> 0, camY |-> 0, camZoom |-> camZoomInit,
     lastMx |-> 0, lastMy |-> 0, rightDragging |-> FALSE,
     frame |-> 0, lastFPS |-> 0]

\* The grid a slice header names
Cur(gm) == gm.bufs[gm.A]
Nxt(gm) == gm.bufs[gm.Anext]


----------------------------------------------------------------------------
(* part_000: simulation step *)

\* The kernel loop of step: sum of k.w * A[ny][nx], numerators first.
RECURSIVE KernelSum(_, _, _, _)
KernelSum(ks, A, y, x) ==
    IF ks = <<>> THEN 0
    ELSE LET k  == Head(ks)
             nx == wrap(x + k.dx, GridW)
             ny == wrap(y + k.dy, GridH)
         IN  k.w.num * A[ny][nx] + KernelSum(Tail(ks), A, y, x)

\* u of step for the cell (x, y)
Activity(gm, y, x) ==
    IF gm.kernel = <<>> THEN 0
    ELSE FDiv(KernelSum(gm.kernel, Cur(gm), y, x), gm.kernel[1].w.den)

\* the cell written into the current buffer
stepCellOnCurrent(gm, y, x) ==
    LET u   == Activity(gm, y, x)
        val == Cur(gm)[y][x] + Mul(gm.dt, growth(u, gm.mu, gm.sigma))
    IN  [gm EXCEPT !.bufs[gm.A] = SetCell(@, y, x, clamp(val, 0, ONE))]

\* the time step scaled by the view zoom
stepCellZoomed(gm, y, x) ==
    LET u   == Activity(gm, y, x)
        val == Cur(gm)[y][x]
               + Mul(FDiv(gm.dt * gm.camZoom, 4 * ONE), growth(u, gm.mu, gm.sigma))
    IN  [gm EXCEPT !.bufs[gm.Anext] = SetCell(@, y, x, clamp(val, 0, ONE))]

\* The body of step's x loop: one cell of Anext
stepCell(gm, y, x) ==
    LET u   == Activity(gm, y, x)
        val == Cur(gm)[y][x] + Mul(gm.dt, growth(u, gm.mu, gm.sigma))
    IN  [gm EXCEPT !.bufs[gm.Anext] = SetCell(@, y, x, clamp(val, 0, ONE))]

\* the swap left out
stepSwapNone(gm) == gm

\* g.A, g.Anext = g.Anext, g.A
stepSwap(gm) == [gm EXCEPT !.A = gm.Anext, !.Anext = gm.A]

\* 1.1^scrollY for the wheel steps the model follows
Pow11(s) == IF s > 0 THEN 1100 ELSE IF s < 0 THEN 909 ELSE ONE

panSpeed == 5000

\* the wheel scaling the time step along with the zoom
handleCameraTimeScale(gm, in) ==
    LET scaled == Mul(gm.camZoom, Pow11(in.scrollY))
        zoomed == IF scaled < ONE THEN ONE ELSE scaled
        g1 == IF in.scrollY # 0
              THEN [gm EXCEPT
                      !.camZoom = zoomed,
                      !.dt = Mul(@, Pow11(in.scrollY)),
                      !.camX = @ + (FDiv(in.mx * ONE * ONE, gm.camZoom)
                                    - (gm.camX + FDiv(in.mx * ONE * ONE, zoomed))),
                      !.camY = @ + (FDiv(in.my * ONE * ONE, gm.camZoom)
                                    - (gm.camY + FDiv(in.my * ONE * ONE, zoomed)))]
              ELSE gm
        g2 == IF in.right
              THEN IF ~g1.rightDragging
                   THEN [g1 EXCEPT !.rightDragging = TRUE,
                                   !.lastMx = in.mx, !.lastMy = in.my]
                   ELSE [g1 EXCEPT
                           !.camX = @ - FDiv((in.mx - g1.lastMx) * ONE * ONE, g1.camZoom),
                           !.camY = @ - FDiv((in.my - g1.lastMy) * ONE * ONE, g1.camZoom),
                           !.lastMx = in.mx, !.lastMy = in.my]
              ELSE [g1 EXCEPT !.rightDragging = FALSE]
        speed == FDiv(panSpeed * ONE, g2.camZoom)
        g3 == IF "W" \in in.keys THEN [g2 EXCEPT !.camY = @ - speed] ELSE g2
        g4 == IF "S" \in in.keys THEN [g3 EXCEPT !.camY = @ + speed] ELSE g3
        g5 == IF "A" \in in.keys THEN [g4 EXCEPT !.camX = @ - speed] ELSE g4
    IN  IF "D" \in in.keys THEN [g5 EXCEPT !.camX = @ + speed] ELSE g5

\* handleCamera; in = the state of wheel, cursor, right button and keys
handleCamera(gm, in) ==
    LET scaled == Mul(gm.camZoom, Pow11(in.scrollY))
        zoomed == IF scaled < ONE THEN ONE ELSE scaled
        g1 == IF in.scrollY # 0
              THEN [gm EXCEPT
                      !.camZoom = zoomed,
                      !.camX = @ + (FDiv(in.mx * ONE * ONE, gm.camZoom)
                                    - (gm.camX + FDiv(in.mx * ONE * ONE, zoomed))),
                      !.camY = @ + (FDiv(in.my * ONE * ONE, gm.camZoom)
                                    - (gm.camY + FDiv(in.my * ONE * ONE, zoomed)))]
              ELSE gm
        g2 == IF in.right
              THEN IF ~g1.rightDragging
                   THEN [g1 EXCEPT !.rightDragging = TRUE,
                                   !.lastMx = in.mx, !.lastMy = in.my]
                   ELSE [g1 EXCEPT
                           !.camX = @ - FDiv((in.mx - g1.lastMx) * ONE * ONE, g1.camZoom),
                           !.camY = @ - FDiv((in.my - g1.lastMy) * ONE * ONE, g1.camZoom),
                           !.lastMx = in.mx, !.lastMy = in.my]
              ELSE [g1 EXCEPT !.rightDragging = FALSE]
        speed == FDiv(panSpeed * ONE, g2.camZoom)
        g3 == IF "W" \in in.keys THEN [g2 EXCEPT !.camY = @ - speed] ELSE g2
        g4 == IF "S" \in in.keys THEN [g3 EXCEPT !.camY = @ + speed] ELSE g3
        g5 == IF "A" \in in.keys THEN [g4 EXCEPT !.camX = @ - speed] ELSE g4
    IN  IF "D" \in in.keys THEN [g5 EXCEPT !.camX = @ + speed] ELSE g5

fpsEvery == 30

\* the time step shortened with every frame
updateTailCooling(gm, elapsed) ==
    LET f == gm.frame + 1
    IN  [gm EXCEPT !.frame = f, !.dt = IF @ > 1 THEN @ - 1 ELSE @,
                   !.lastFPS = IF f % fpsEvery = 0
                               THEN FDiv(f * ONE, elapsed) ELSE @]

\* The tail of Update: frame counter and FPS read-out (elapsed: seconds
\* since start, fixed point, > 0)
updateTail(gm, elapsed) ==
    LET f == gm.frame + 1
    IN  [gm EXCEPT !.frame = f,
                   !.lastFPS = IF f % fpsEvery = 0
                               THEN FDiv(f * ONE, elapsed) ELSE @]


----------------------------------------------------------------------------
(* part_001: dense kernel, Lorenz driver, transform-domain step *)

\* Genome.Mu and Genome.Sigma are kept in millionths, so that the driver's
\* increments of 0.002*tanh(.) and 0.001*y are not rounded away.
MILLI == 10 * 10 * 10

\* buildKernel of part_001: a gridH x gridW array, the shell centred on
\* (gridW/2, gridH/2), weights as computed (not divided by anything).
buildKernelDense(R) ==
    LET cx == GridW \div 2
        cy == GridH \div 2
    IN  [y \in Rows |-> [x \in Cols |->
            LET dist == Hypot(x - cx, y - cy)
            IN  IF dist <= R
                THEN IF R = 0 THEN NaN ELSE Kc(FDiv(dist * ONE, R))
                ELSE 0]]

\* flatten: row-major sequence of a grid
flatten(m) == [i \in 1 .. NCells |-> m[(i - 1) \div GridW][(i - 1) % GridW]]

\* reshape: back to rows, real part
reshape(data) == [y \in Rows |-> [x \in Cols |-> data[y * GridW + x + 1]]]

\* fft2d.Coefficients of both operands, the elementwise product and
\* fft2d.Sequence (step, lines 180-184).  The transform pair is taken to be
\* the exact 2-D DFT and its inverse, for which the result is the cyclic
\* convolution of the two flattened gridH x gridW arrays.
RECURSIVE CyclicSum(_, _, _, _)
CyclicSum(a, k, i, j) ==
    IF j > NCells THEN 0
    ELSE LET y == (i - 1) \div GridW
             x == (i - 1) % GridW
             p == (j - 1) \div GridW
             q == (j - 1) % GridW
             src == ((y - p) % GridH) * GridW + ((x - q) % GridW) + 1
         IN  k[j] * a[src] + CyclicSum(a, k, i, j + 1)

fftConvolve(a, k) == [i \in 1 .. NCells |-> FDiv(CyclicSum(a, k, i, 1), ONE)]

NewLorenz == [x |-> 100, y |-> 0, z |-> 0]
lorenzSigma == 10000
lorenzRho == 28000
lorenzB == 2667
lorenzDt == 10

\* Lorenz.Step
LorenzStep(l) ==
    LET dx == Mul(lorenzSigma, l.y - l.x)
        dy == Mul(l.x, lorenzRho - l.z) - l.y
        dz == Mul(l.x, l.y) - Mul(lorenzB, l.z)
    IN  [x |-> l.x + Mul(dx, lorenzDt),
         y |-> l.y + Mul(dy, lorenzDt),
         z |-> l.z + Mul(dz, lorenzDt)]

\* sigma published as computed, without its clamp
genomeUpdateNoClamp(gm, l) ==
    [gm EXCEPT
       !.mu = clamp(@ + 2 * Tanh(FDiv(l.x, 20)), 10 * MILLI, ONE * MILLI),
       !.sigma = @ + FDiv(FDiv(@, MILLI) * l.y, ONE),
       !.colorBias = Tanh(FDiv(l.z, 30))]

\* the colour bias of the last tick added to the nudge of mu
genomeUpdateBiased(gm, l) ==
    [gm EXCEPT
       !.mu = clamp(@ + 2 * Tanh(FDiv(l.x, 20)) + gm.colorBias,
                    10 * MILLI, ONE * MILLI),
       !.sigma = clamp(@ + FDiv(FDiv(@, MILLI) * l.y, ONE), MILLI, ONE * MILLI),
       !.colorBias = Tanh(FDiv(l.z, 30))]

\* The three assignments to g.genome (lines 189-191), l the driver state
\* they read.
genomeUpdate(gm, l) ==
    [gm EXCEPT
       !.mu = clamp(@ + 2 * Tanh(FDiv(l.x, 20)), 10 * MILLI, ONE * MILLI),
       !.sigma = clamp(@ + FDiv(FDiv(@, MILLI) * l.y, ONE), MILLI, ONE * MILLI),
       !.colorBias = Tanh(FDiv(l.z, 30))]

\* mu nudged by the field as well
modulateByField(gm) ==
    LET l == LorenzStep(gm.lorenz)
        m == genomeUpdate([gm EXCEPT !.lorenz = l], l)
    IN  [m EXCEPT !.mu = clamp(@ + gm.bufs[gm.A][0][0], 10 * MILLI, ONE * MILLI)]

\* "Lorenz modulation" of step (lines 188-191)
modulate(gm) ==
    LET l == LorenzStep(gm.lorenz)
    IN  genomeUpdate([gm EXCEPT !.lorenz = l], l)

blobAmpFFT == 900

\* The blob loop of NewGame (part_001)
InitFieldFFT(P) ==
    LET cx == GridW \div 2
        cy == GridH \div 2
    IN  [y \in Rows |-> [x \in Cols |->
            LET d == Hypot(x - cx, y - cy)
                a == IF d < BlobRadius * ONE
                     THEN Mul(blobAmpFFT,
                              ExpNeg(FDiv(d * d, 2 * BlobSpread * BlobSpread * ONE)))
                     ELSE 0
            IN  IF Perturbed(P, y, x) THEN P[y * GridW + x] ELSE a]]

\* NewGame of part_001; kernelFFT stands for the transform of the flattened
\* dense kernel (the transform is one-to-one, the array itself is kept).
NewGameFFT(P) ==
    [variant |-> "fft",
     bufs |-> <<InitFieldFFT(P), ZeroGrid>>, A |-> 1, Anext |-> 2,
     kernel |-> <<>>, kernelFFT |-> buildKernelDense(Radius * ONE),
     dt |-> dtDefault, mu |-> muDefault * MILLI, sigma |-> sigDefault * MILLI,
     colorBias |-> 0, lorenz |-> NewLorenz,
     camX |-> 0, camY |-> 0, camZoom |-> 0,
     lastMx |-> 0, lastMy |-> 0, rightDragging |-> FALSE,
     frame |-> 0, lastFPS |-> 0]

\* U of step: FFT convolution of g.A with the kernel
stepU(gm) == reshape(fftConvolve(flatten(Cur(gm)), flatten(gm.kernelFFT)))

\* the modulation moved into the loop body
stepCellFFTRemodulate(gm, UU, y, x) ==
    LET m    == modulate(gm)
        u    == UU[y][x]
        grow == growth(u, FDiv(m.mu, MILLI), FDiv(m.sigma, MILLI))
        val  == Cur(m)[y][x] + Mul(m.dt, grow)
    IN  [m EXCEPT !.bufs[m.Anext] = SetCell(@, y, x, clamp(val, 0, ONE))]

\* "Update grid" loop body of step (lines 196-199)
stepCellFFT(gm, UU, y, x) ==
    LET u    == UU[y][x]
        grow == growth(u, FDiv(gm.mu, MILLI), FDiv(gm.sigma, MILLI))
        val  == Cur(gm)[y][x] + Mul(gm.dt, grow)
    IN  [gm EXCEPT !.bufs[gm.Anext] = SetCell(@, y, x, clamp(val, 0, ONE))]

----------------------------------------------------------------------------
(* Lenia2.main.go: fixed arrays *)

sigmaK == 3142
muG == 3142
sigmaG == 3142
dtArr == 6
RConv == Radius

\* kernel(dx, dy)
kernel(dx, dy) ==
    LET r == Hypot(dx, dy)
    IN  IF r > Radius * ONE THEN 0
        ELSE ExpNeg(Ratio(r * r, 2 * sigmaK * sigmaK))

\* growth(S) of Lenia2
growthArr(S) ==
    2 * ExpNeg(Ratio((S - muG) * (S - muG), 2 * sigmaG * sigmaG)) - ONE

\* initializeBlob(cx, cy, radius, initialVal)
initializeBlob(cx, cy, radius, initialVal) ==
    LET sigma == FDiv(radius, 3)
    IN  [j \in Rows |-> [i \in Cols |->
            LET r   == Hypot(i - cx, j - cy)
                val == Mul(initialVal, ExpNeg(Ratio(r * r, 2 * sigma * sigma)))
            IN  IF val > ONE THEN ONE ELSE val]]

\* The globals of Lenia2 after main's set-up: bufs[1] is the array field,
\* bufs[2] the local array next of updateField.
NewArray ==
    [variant |-> "array",
     bufs |-> <<initializeBlob(GridW \div 2, GridH \div 2, BlobRadius * ONE, ONE),
                ZeroGrid>>,
     A |-> 1, Anext |-> 2,
     kernel |-> <<>>, kernelFFT |-> ZeroGrid,
     dt |-> dtArr, mu |-> muG, sigma |-> sigmaG,
     colorBias |-> 0, lorenz |-> NoLorenz,
     camX |-> 0, camY |-> 0, camZoom |-> 0,
     lastMx |-> 0, lastMy |-> 0, rightDragging |-> FALSE,
     frame |-> 0, lastFPS |-> 0]

\* The dy/dx convolution loops of updateField for the cell (i, j)
RECURSIVE convArr(_, _, _, _)
convArr(F, j, i, n) ==
    LET side == 2 * RConv + 1
    IN  IF n >= side * side THEN 0
        ELSE LET dy == (n \div side) - RConv
                 dx == (n % side) - RConv
                 ni == GoRem(i + dx + GridW, GridW)
                 nj == GoRem(j + dy + GridH, GridH)
             IN  F[nj][ni] * kernel(dx, dy) + convArr(F, j, i, n + 1)

\* One cell of updateField: next[j][i]
updateCell(gm, j, i) ==
    LET sum == FDiv(convArr(gm.bufs[1], j, i, 0), ONE)
        val == gm.bufs[1][j][i] + Mul(dtArr, growthArr(sum))
        v1  == IF val < 0 THEN 0 ELSE val
        v2  == IF v1 > ONE THEN ONE ELSE v1
    IN  [gm EXCEPT !.bufs[2] = SetCell(@, j, i, v2)]

\* var next [height][width]float32
updateEnter(gm) == [gm EXCEPT !.bufs[2] = ZeroGrid]

\* field = next
updateCopy(gm) == [gm EXCEPT !.bufs[1] = gm.bufs[2]]


----------------------------------------------------------------------------
(* Whole calls, as the host loop sees them *)

RECURSIVE stepCells(_, _)
stepCells(gm, c) ==
    IF c >= NCells THEN gm
    ELSE stepCells(stepCell(gm, CellY(c), CellX(c)), c + 1)

\* Game.step of part_000
step(gm) == stepSwap(stepCells(gm, 0))

\* Game.Update of part_000
Update(gm, in, elapsed) == updateTail(step(handleCamera(gm, in)), elapsed)

RECURSIVE stepCellsFFT(_, _, _)
stepCellsFFT(gm, UU, c) ==
    IF c >= NCells THEN gm
    ELSE stepCellsFFT(stepCellFFT(gm, UU, CellY(c), CellX(c)), UU, c + 1)

\* Game.step of part_001
stepFFT(gm) == stepSwap(stepCellsFFT(modulate(gm), stepU(gm), 0))

\* Game.Update of part_001
UpdateFFT(gm, elapsed) == updateTail(stepFFT(gm), elapsed)

RECURSIVE updateCells(_, _)
updateCells(gm, c) ==
    IF c >= NCells THEN gm
    ELSE updateCells(updateCell(gm, CellY(c), CellX(c)), c + 1)

\* updateField of Lenia2
updateField(gm) == updateCopy(updateCells(updateEnter(gm), 0))

----------------------------------------------------------------------------
(* The engines run by their host loops, one cell of a step at a time *)

NoInput == [scrollY |-> 0, mx |-> 0, my |-> 0, right |-> FALSE, keys |-> {}]
Inputs == {NoInput,
           [scrollY |-> 1, mx |-> 10, my |-> 20, right |-> TRUE, keys |-> {"W", "D"}]}
Elapsed == {ONE}

NotDrawn == [n |-> 0, src |-> 0, at |-> 0, img |-> ZeroGrid]

\* no function is being called on its own
NoCall == [fn |-> "none"]

\* no particle program is running
NoWorld == [prog |-> "none"]
Dormant == world = NoWorld /\ pass = NoWorld /\ log = NoWorld

InitGames ==
    {NewGame(P) : P \in Perturbations} \cup {NewGameFFT(P) : P \in Perturbations}
        \cup {NewArray}

Init ==
    /\ g \in InitGames
    /\ h = g
    /\ sh = <<0, 0>>
    /\ pc = "idle"
    /\ cursor = 0
    /\ U = ZeroGrid
    /\ writes = ZeroGrid
    /\ tick0 = g
    /\ ticks = 0
    /\ drawn = NotDrawn
    /\ events = <<>>
    /\ args = NoCall
    /\ ret = NoCall
    /\ Dormant

\* Update / updateField is entered.  part_000: handleCamera; part_001: the
\* "FFT convolution" block of step; Lenia2: the declaration of next.
Enter ==
    /\ pc = "idle"
    /\ ticks < MaxTicks
    /\ \E in \in Inputs :
         /\ g' = CASE g.variant = "direct" -> handleCamera(g, in)
                   [] g.variant = "fft"    -> g
                   [] OTHER                -> updateEnter(g)
         /\ g.variant # "direct" => in = NoInput
    /\ U' = IF g.variant = "fft" THEN stepU(g) ELSE ZeroGrid
    /\ events' = CASE g.variant = "direct" -> <<"camera">>
                    [] g.variant = "fft"    -> <<"conv">>
                    [] OTHER                -> <<"alloc">>
    /\ tick0' = g
    /\ pc' = IF g.variant = "fft" THEN "mod" ELSE "loop"
    /\ cursor' = 0
    /\ writes' = ZeroGrid
    /\ drawn' = NotDrawn
    /\ UNCHANGED <<ticks, h, sh, call, sim>>

\* part_001: the "Lorenz modulation" block of step, after the convolution.
Modulate ==
    /\ pc = "mod"
    /\ g' = modulate(g)
    /\ events' = Append(events, "mod")
    /\ pc' = "loop"
    /\ UNCHANGED <<cursor, U, writes, tick0, ticks, drawn, h, sh, call, sim>>

\* One iteration of the y/x loops.
Cell ==
    /\ pc = "loop"
    /\ cursor < NCells
    /\ LET y == CellY(cursor)
           x == CellX(cursor)
       IN  /\ g' = CASE g.variant = "direct" -> stepCell(g, y, x)
                     [] g.variant = "fft"    -> stepCellFFT(g, U, y, x)
                     [] OTHER                -> updateCell(g, y, x)
           /\ writes' = [writes EXCEPT ![y][x] = @ + 1]
    /\ events' = IF cursor = 0 THEN Append(events, "write") ELSE events
    /\ cursor' = cursor + 1
    /\ UNCHANGED <<pc, U, tick0, ticks, drawn, h, sh, call, sim>>

\* The loops are over: buffer swap (or array copy) and the rest of Update.
Exit ==
    /\ pc = "loop"
    /\ cursor = NCells
    /\ \E el \in Elapsed :
         g' = CASE g.variant = "direct" -> updateTail(stepSwap(g), el)
                [] g.variant = "fft"    -> updateTail(stepSwap(g), el)
                [] OTHER                -> updateCopy(g)
    /\ events' = Append(events, IF g.variant = "array" THEN "copy" ELSE "swap")
    /\ pc' = "idle"
    /\ ticks' = ticks + 1
    /\ UNCHANGED <<cursor, U, writes, tick0, drawn, h, sh, call, sim>>

\* a renderer that reads the scratch buffer
DrawScratch ==
    /\ pc = "idle"
    /\ drawn' = [n |-> 1, src |-> g.Anext, at |-> ticks, img |-> Nxt(g)]
    /\ UNCHANGED <<g, pc, cursor, U, writes, tick0, ticks, h, sh, events, call, sim>>

\* Game.Draw / drawField: called by the host loop between updates; reads
\* the grid that g.A (or field) names.
Draw ==
    /\ pc = "idle"
    /\ drawn' = [n |-> 1, src |-> g.A, at |-> ticks, img |-> Cur(g)]
    /\ UNCHANGED <<g, pc, cursor, U, writes, tick0, ticks, h, sh, events, call, sim>>

Next == Enter \/ Modulate \/ Cell \/ Exit \/ Draw

Spec == Init /\ [][Next]_vars


----------------------------------------------------------------------------
(* Reference definitions used by the properties: the toroidal sums written *)
(* with the mathematical modulus, independent of wrap and of the loops.    *)

Cells == Rows \X Cols

\* f[1] + ... + f[n]
RECURSIVE SumTo(_, _)
SumTo(f, n) == IF n = 0 THEN 0 ELSE f[n] + SumTo(f, n - 1)

Indices(seq) == 1 .. Len(seq)

\* sum over the entries of a sparse kernel K of num * F[(y+dy) mod H][(x+dx) mod W],
\* divided by the common denominator
TorusSum(K, F, y, x) ==
    IF K = <<>> THEN 0
    ELSE FDiv(SumTo([i \in Indices(K) |->
                       K[i].w.num * F[(y + K[i].dy) % GridH][(x + K[i].dx) % GridW]],
                    Len(K)),
              K[1].w.den)

\* the offsets -RConv..RConv squared, as a sequence
ArrayOffsets ==
    LET side == 2 * RConv + 1
    IN  [n \in 1 .. side * side |-> <<((n - 1) % side) - RConv, ((n - 1) \div side) - RConv>>]

\* the activity of Lenia2 at the cell (x, y) of the field F
ArrayU(F, y, x) ==
    FDiv(SumTo([n \in Indices(ArrayOffsets) |->
                  F[(y + ArrayOffsets[n][2]) % GridH][(x + ArrayOffsets[n][1]) % GridW]
                    * kernel(ArrayOffsets[n][1], ArrayOffsets[n][2])],
               Len(ArrayOffsets)),
         ONE)

InUnit(v) == 0 <= v /\ v <= ONE

----------------------------------------------------------------------------
(* C1: in every variant (direct, fft, array), from the initializer's field *)
(* on, every cell of the current field is in [0,1] after any number of     *)
(* ticks (and at every point inside a tick).                               *)
C1_FieldInUnitRange ==
    \A y \in Rows, x \in Cols : InUnit(Cur(g)[y][x])

\* A completed tick in which one cell was held at 0 and another was driven
\* up to exactly 1 from below.
C1_Witness ==
    /\ pc = "idle" /\ ticks >= 1
    /\ \E c \in Cells : Cur(tick0)[c[1]][c[2]] = 0 /\ Cur(g)[c[1]][c[2]] = 0
    /\ \E c \in Cells : Cur(tick0)[c[1]][c[2]] < ONE /\ Cur(g)[c[1]][c[2]] = ONE


----------------------------------------------------------------------------
\* The sparse kernel of the direct strategy for the model's radius
SparseK == buildKernel(Radius * ONE)

\* tolerance of the comparisons between two computations of one quantity
UTol == ONE \div 100

(* C2: for the same field and the same kernel parameters, the activity     *)
(* grid of the transform-domain step equals, cell for cell (within UTol),  *)
(* the toroidal weighted neighbour sum of the direct step.                 *)
C2_TransformEqualsDirect ==
    (g.variant = "fft" /\ pc = "idle") =>
        \A c \in Cells :
            Abs(stepU(g)[c[1]][c[2]] - TorusSum(SparseK, Cur(g), c[1], c[2])) <= UTol

\* the mass the sparse kernel K puts on the wrapped index (y, x)
WrappedMass(K, y, x) ==
    SumTo([i \in Indices(K) |->
             IF K[i].dy % GridH = y /\ K[i].dx % GridW = x THEN K[i].w.num ELSE 0],
          Len(K))

(* C3: the dense kernel array of the transform strategy holds, for every   *)
(* sparse entry (dx, dy, w), the mass w at index (dy mod H, dx mod W) and  *)
(* zero everywhere else (within 1/ONE).                                    *)
C3_DenseKernelAtWrappedOffsets ==
    g.variant = "fft" =>
        \A c \in Cells :
            Abs(g.kernelFFT[c[1]][c[2]] * SparseK[1].w.den
                  - WrappedMass(SparseK, c[1], c[2]) * ONE) <= SparseK[1].w.den

(* C4: every kernel a builder returns is normalised: the weights of the    *)
(* sparse kernel sum to 1, and so do the cells of the dense kernel.        *)
C4_KernelsNormalized ==
    /\ g.variant = "direct" =>
          SumTo([i \in Indices(g.kernel) |-> g.kernel[i].w.num], Len(g.kernel))
              = g.kernel[1].w.den
    /\ g.variant = "fft" =>
          Abs(SumTo(flatten(g.kernelFFT), NCells) - ONE) <= UTol

WrapSpan == 12

(* C5: wrap(v, m) is the mathematical v mod m, in [0, m), for negative v   *)
(* too; the activity the direct step computes for a cell is the sum over   *)
(* the kernel entries of w * A[(y+dy) mod H][(x+dx) mod W]; the same holds *)
(* for the index arithmetic and sum of updateField.                        *)
C5_DirectActivityIsTorusSum ==
    /\ pc = "idle" =>
          \A v \in -WrapSpan .. WrapSpan, m \in 1 .. WrapSpan :
              wrap(v, m) = v % m /\ wrap(v, m) \in 0 .. m - 1
    /\ (g.variant = "direct" /\ pc = "idle") =>
          \A c \in Cells :
              Activity(g, c[1], c[2]) = TorusSum(g.kernel, Cur(g), c[1], c[2])
    /\ (g.variant = "array" /\ pc = "idle") =>
          \A c \in Cells :
              FDiv(convArr(g.bufs[1], c[1], c[2], 0), ONE) = ArrayU(g.bufs[1], c[1], c[2])

\* After a tick of the direct engine the corner cell (0,0) has activity
\* that reached it through a negative offset, i.e. across the edge.
C5_Witness ==
    /\ g.variant = "direct" /\ pc = "idle" /\ ticks >= 1
    /\ \E i \in Indices(g.kernel) :
          /\ g.kernel[i].dx < 0 /\ g.kernel[i].dy < 0 /\ g.kernel[i].w.num > 0
          /\ Cur(g)[wrap(g.kernel[i].dy, GridH)][wrap(g.kernel[i].dx, GridW)] > 0
    /\ Activity(g, 0, 0) > 0

Clamp01(v) == IF v < 0 THEN 0 ELSE IF v > ONE THEN ONE ELSE v

\* The value the update rule gives the cell (y, x) from the state t0 of the
\* engine before the tick, the growth parameters p in force in the tick and
\* (fft variant) the activity grid UU.
RuleCell(t0, p, UU, y, x) ==
    CASE t0.variant = "direct" ->
           Clamp01(Cur(t0)[y][x]
                   + Mul(p.dt, growth(TorusSum(t0.kernel, Cur(t0), y, x), p.mu, p.sigma)))
      [] t0.variant = "fft" ->
           Clamp01(Cur(t0)[y][x]
                   + Mul(p.dt, growth(UU[y][x],
                                      FDiv(p.mu, MILLI), FDiv(p.sigma, MILLI))))
      [] OTHER ->
           Clamp01(Cur(t0)[y][x] + Mul(dtArr, growthArr(ArrayU(Cur(t0), y, x))))

(* C6: one tick sets every cell to clamp(current + dt*growth(U, mu, sigma),*)
(* 0, 1) with current and U taken from before the tick, and after the tick *)
(* the current field is exactly that grid.                                 *)
C6_TickIsPointwiseRule ==
    (pc = "idle" /\ ticks >= 1) =>
        /\ g.variant = "fft" => U = stepU(tick0)
        /\ \A c \in Cells : Cur(g)[c[1]][c[2]] = RuleCell(tick0, g, U, c[1], c[2])

\* A second or later tick has completed and changed the field.
C6_Witness ==
    /\ pc = "idle" /\ ticks >= 2
    /\ Cur(g) # Cur(tick0)
    /\ \E c \in Cells : Cur(g)[c[1]][c[2]] > Cur(tick0)[c[1]][c[2]]

CellIndex(c) == c[1] * GridW + c[2]

(* C7: during a tick of the direct or the fft engine every cell of the     *)
(* next buffer is written exactly once, the current buffer is not written, *)
(* and the buffers swap only after the last cell has been written.         *)
C7_NextWrittenOnceThenSwap ==
    g.variant \in {"direct", "fft"} =>
        /\ pc = "loop" =>
              /\ \A c \in Cells :
                    writes[c[1]][c[2]] = IF CellIndex(c) < cursor THEN 1 ELSE 0
              /\ g.A = tick0.A /\ g.Anext = tick0.Anext
              /\ g.bufs[tick0.A] = tick0.bufs[tick0.A]
        /\ (pc = "idle" /\ ticks >= 1) =>
              /\ \A c \in Cells : writes[c[1]][c[2]] = 1
              /\ g.A = tick0.Anext /\ g.Anext = tick0.A
              /\ g.bufs[tick0.A] = tick0.bufs[tick0.A]

\* The last cell of a second tick has been written, the swap is still due.
C7_Witness ==
    /\ g.variant \in {"direct", "fft"}
    /\ pc = "loop" /\ cursor = NCells /\ ticks >= 1
    /\ Nxt(g) # Cur(g)

(* C8: the renderer acts only between ticks, reads the grid that is        *)
(* current then and never the scratch buffer, and changes neither buffer   *)
(* nor any growth parameter.                                               *)
C8_DrawReadsCompletedCurrent ==
    [][drawn'.n = 1 /\ drawn' # drawn =>
         /\ pc = "idle" /\ pc' = "idle"
         /\ drawn'.src = g.A /\ drawn'.src # g.Anext
         /\ drawn'.img = Cur(g)
         /\ g' = g]_vars

\* A frame drawn after a completed tick, showing that tick's field.
C8_Witness ==
    /\ drawn.n = 1 /\ drawn.at >= 1 /\ drawn.at = ticks
    /\ drawn.img = Cur(g) /\ drawn.img # Nxt(g)


----------------------------------------------------------------------------
(* Two runs of the direct engine side by side *)

\* The field F moved by d = <<dx, dy>> with toroidal wrap
Shift(F, d) == [y \in Rows |-> [x \in Cols |-> F[(y - d[2]) % GridH][(x - d[1]) % GridW]]]

\* no step is running, nothing has been drawn
AtRest ==
    /\ pc = "idle" /\ cursor = 0 /\ U = ZeroGrid /\ writes = ZeroGrid
    /\ ticks = 0 /\ drawn = NotDrawn /\ events = <<>>

Still == AtRest /\ Dormant

Quiet == Still /\ args = NoCall /\ ret = NoCall

\* g starts from an initializer field, h from the same field shifted by sh.
InitShift ==
    /\ \E P \in Perturbations, d \in Cols \X Rows :
          /\ g = NewGame(P)
          /\ sh = d
          /\ h = [NewGame(P) EXCEPT !.bufs[1] = Shift(@, d)]
    /\ tick0 = g
    /\ Quiet

\* Both engines run step once.
ShiftTick ==
    /\ ticks < ShiftTicks
    /\ g' = step(g)
    /\ h' = step(h)
    /\ tick0' = g
    /\ ticks' = ticks + 1
    /\ UNCHANGED <<pc, cursor, U, writes, drawn, sh, events, call, sim>>

SpecShift == InitShift /\ [][ShiftTick]_vars

(* C9: translation invariance of a tick: with the same growth parameters,  *)
(* stepping the field shifted by (dx, dy) gives the stepped field shifted  *)
(* by (dx, dy).                                                            *)
C9_StepCommutesWithShift ==
    Cur(h) = Shift(Cur(g), sh)

\* A tick has changed the field, and the shift is a proper one.
C9_Witness ==
    /\ ticks >= 1 /\ sh[1] # 0 /\ sh[2] # 0
    /\ Cur(g) # Cur(tick0)
    /\ Cur(h) # Cur(g)

\* Two engines built from the same initial field.
InitPair ==
    /\ \E P \in Perturbations : g = NewGame(P)
    /\ h = g
    /\ sh = <<0, 0>>
    /\ tick0 = g
    /\ Quiet

\* Each host loop calls Update once: g with no input at all, h with any
\* input, and with clocks that read differently.
PairTick ==
    /\ ticks < MaxTicks
    /\ \E in2 \in Inputs :
          /\ g' = Update(g, NoInput, ONE)
          /\ h' = Update(h, in2, 2 * ONE)
    /\ tick0' = g
    /\ ticks' = ticks + 1
    /\ UNCHANGED <<pc, cursor, U, writes, drawn, sh, events, call, sim>>

SpecPair == InitPair /\ [][PairTick]_vars

(* C10: with no modulator and fixed (mu, sigma, dt), two engines started   *)
(* from identical fields hold identical fields after every number of       *)
(* ticks, whatever camera input and clock readings each of them sees.      *)
C10_SameFieldSameRun ==
    /\ Cur(g) = Cur(h)
    /\ <<g.mu, g.sigma, g.dt>> = <<h.mu, h.sigma, h.dt>>

\* After two ticks the two engines differ in their view state, and the
\* field has moved on.
C10_Witness ==
    /\ ticks >= 2
    /\ <<g.camX, g.camY, g.camZoom>> # <<h.camX, h.camY, h.camZoom>>
    /\ Cur(g) # Cur(tick0)

----------------------------------------------------------------------------
(* Two engines constructed one after the other, each run by its own host   *)

\* the draws of the global source that the second construction is followed on
TwinDraws == {<<>>, [c \in {0} |-> 999]}

\* NewGame is called twice.  It takes no argument: each call reads the
\* process-wide source (part_001 reseeds it from the clock first), so the
\* two calls see draws of their own.
InitTwin ==
    /\ \E P1 \in Perturbations, P2 \in TwinDraws :
          \/ g = NewGame(P1) /\ h = NewGame(P2)
          \/ g = NewGameFFT(P1) /\ h = NewGameFFT(P2)
    /\ sh = <<0, 0>>
    /\ tick0 = g
    /\ Quiet

\* Each host loop calls Update once; the clocks read differently, and the
\* second engine of part_000 sees any input.
TwinTick ==
    /\ ticks < MaxTicks
    /\ \E in2 \in Inputs :
          /\ g' = IF g.variant = "fft" THEN UpdateFFT(g, ONE)
                  ELSE Update(g, NoInput, ONE)
          /\ h' = IF h.variant = "fft" THEN UpdateFFT(h, 2 * ONE)
                  ELSE Update(h, in2, 2 * ONE)
          /\ h.variant = "fft" => in2 = NoInput
    /\ tick0' = g
    /\ ticks' = ticks + 1
    /\ UNCHANGED <<pc, cursor, U, writes, drawn, sh, events, call, sim>>

SpecTwin == InitTwin /\ [][TwinTick]_vars

\* the growth parameters and the driver state of an engine
Params(gm) == <<gm.mu, gm.sigma, gm.dt>>

(* C11: two modulated engines that start with the same driver state and    *)
(* the same growth parameters publish the same (mu, sigma, dt) after every *)
(* number of ticks, although their fields and their clocks differ.         *)
C11_SameDriverSameParams ==
    g.variant = "fft" => Params(g) = Params(h) /\ g.lorenz = h.lorenz

\* Two ticks on, the fields of the two engines differ and the parameters
\* have moved away from their initial values.
C11_Witness ==
    /\ g.variant = "fft" /\ ticks >= 2
    /\ Cur(g) # Cur(h)
    /\ g.mu # muDefault * MILLI /\ g.sigma # sigDefault * MILLI
    /\ g.lorenz # NewLorenz

(* C12: two constructions of an engine, given the same seed, produce the   *)
(* same initial field.  (NewGame has no seed parameter; the two calls are  *)
(* given the same, empty, argument list.)                                  *)
C12_SameSeedSameField ==
    ticks = 0 => Cur(g) = Cur(h)

----------------------------------------------------------------------------
(* The particle programs (MaCE.main.go, real.main.go, fibonacci22.main.go, *)
(* the second program of part_000, part_002).  Positions, velocities,      *)
(* forces, masses and rule strengths are fixed point in hundredths (CENT); *)
(* energy is kept in units of 1/EU so that the cost of a move is visible.  *)

CENT == 10 * 10
EU == 1000 * CENT

\* a * b and a / b on hundredths
MulC(a, b) == FDiv(a * b, CENT)

\* math.Sqrt(dx*dx + dy*dy) on hundredths
SqrtC(sq) == ISqrt(sq)

\* the constants of MaCE.main.go
localRadius == 30 * CENT
energyStart == 100 * EU
energyCostMove == EU \div 1000
predationRange == 10 * CENT
predationRate == (3 * CENT) \div 2
maxForceDist == 80 * CENT
massBase == CENT

\* Fibonacci(n) of fibonacci22
RECURSIVE fibLoop(_, _, _, _)
fibLoop(a, b, i, n) == IF i > n THEN b ELSE fibLoop(b, a + b, i + 1, n)

Fibonacci(n) == IF n <= 1 THEN n ELSE fibLoop(0, 1, 2, n)

\* findClusters, the test of line 88 for the particles idx and j
withinRadius(pts, radius, idx, j) ==
    LET dx == pts[idx].x - pts[j].x
        dy == pts[idx].y - pts[j].y
    IN  dx * dx + dy * dy <= radius * radius

\* findClusters, the j loop (lines 82-92) for the dequeued particle idx
RECURSIVE scanNeighbours(_, _, _, _, _, _)
scanNeighbours(pts, radius, idx, j, queue, visited) ==
    IF j > Len(pts) THEN [queue |-> queue, visited |-> visited]
    ELSE IF visited[j] THEN scanNeighbours(pts, radius, idx, j + 1, queue, visited)
    ELSE IF withinRadius(pts, radius, idx, j)
         THEN scanNeighbours(pts, radius, idx, j + 1, Append(queue, j),
                             [visited EXCEPT ![j] = TRUE])
         ELSE scanNeighbours(pts, radius, idx, j + 1, queue, visited)

\* only the neighbours of the first particle taken into its cluster
drainQueueDirect(pts, radius, queue, visited, members) ==
    LET r == scanNeighbours(pts, radius, Head(queue), 1, Tail(queue), visited)
    IN  [members |-> members \o <<Head(queue)>> \o r.queue, visited |-> r.visited]

\* findClusters, the loop "for len(queue) > 0" (lines 78-93)
RECURSIVE drainQueue(_, _, _, _, _)
drainQueue(pts, radius, queue, visited, members) ==
    IF queue = <<>> THEN [members |-> members, visited |-> visited]
    ELSE LET idx == Head(queue)
             r   == scanNeighbours(pts, radius, idx, 1, Tail(queue), visited)
         IN  drainQueue(pts, radius, r.queue, r.visited, Append(members, idx))

\* findClusters, the outer loop over i (lines 71-95)
RECURSIVE clustersFrom(_, _, _, _, _)
clustersFrom(pts, radius, i, visited, clusters) ==
    IF i > Len(pts) THEN clusters
    ELSE IF visited[i] THEN clustersFrom(pts, radius, i + 1, visited, clusters)
    ELSE LET r == drainQueue(pts, radius, <<i>>, [visited EXCEPT ![i] = TRUE], <<>>)
         IN  clustersFrom(pts, radius, i + 1, r.visited,
                          Append(clusters, r.members))

\* findClusters: the clusters, each the list of its particles (as indices
\* into the list handed in)
findClusters(pts, radius) ==
    clustersFrom(pts, radius, 1, [i \in 1 .. Len(pts) |-> FALSE], <<>>)

----------------------------------------------------------------------------
(* The MaCE velocity redistribution of MaCE.main.go, part_000 and part_002 *)

\* the exchange gives b what it takes from a, and a little more
exchangeLossy(ps, a, b) ==
    LET fx == FDiv(ps[a].vx - ps[b].vx, 2)
        fy == FDiv(ps[a].vy - ps[b].vy, 2)
    IN  [ps EXCEPT ![a].vx = @ - fx, ![a].vy = @ - fy,
                   ![b].vx = @ + fx + 1, ![b].vy = @ + fy]

\* "fx := (a.vx - b.vx) * 0.5; a.vx -= fx; b.vx += fx" and the same for y
exchange(ps, a, b) ==
    LET fx == FDiv(ps[a].vx - ps[b].vx, 2)
        fy == FDiv(ps[a].vy - ps[b].vy, 2)
    IN  [ps EXCEPT ![a].vx = @ - fx, ![a].vy = @ - fy,
                   ![b].vx = @ + fx, ![b].vy = @ + fy]

\* part_002: Width, Height and MassRadius
torusWidth == 1080 * CENT
torusHeight == 1440 * CENT
MassRadius == 15 * CENT

\* part_002: the toroidal distance along one axis
torusDelta(d, span) ==
    IF d > span \div 2 THEN d - span
    ELSE IF d < -(span \div 2) THEN d + span ELSE d

\* the pairs the redistribution touches: closer than the radius, not at
\* the same place; part_002 measures around the torus
closeBy(ps, a, b, torus) ==
    LET rx == ps[b].x - ps[a].x
        ry == ps[b].y - ps[a].y
        dx == IF torus THEN torusDelta(rx, torusWidth) ELSE rx
        dy == IF torus THEN torusDelta(ry, torusHeight) ELSE ry
        distSq == dx * dx + dy * dy
        radius == IF torus THEN MassRadius ELSE localRadius
    IN  distSq < radius * radius /\ distSq > 0

RECURSIVE redistributeFrom(_, _, _, _, _)
redistributeFrom(ps, list, torus, i, j) ==
    IF i > Len(list) THEN ps
    ELSE IF j > Len(list) THEN redistributeFrom(ps, list, torus, i + 1, i + 2)
    ELSE redistributeFrom(IF closeBy(ps, list[i], list[j], torus)
                          THEN exchange(ps, list[i], list[j]) ELSE ps,
                          list, torus, i, j + 1)

\* the MaCE step over the listed particles
redistribute(ps, list, torus) == redistributeFrom(ps, list, torus, 1, 2)

----------------------------------------------------------------------------
(* Single calls of growth, of the kernel builders and of step on an engine *)
(* built with a given radius                                               *)

GrowthSteps == 4
RadiusSteps == 4

\* arguments of growth: u and mu over [0,1], sigma on both sides of 0
GrowthArgs ==
    LET unit == {(k * ONE) \div GrowthSteps : k \in 0 .. GrowthSteps}
    IN  [fn : {"growth"}, u : unit, mu : unit,
         sigma : {-ONE, -60, -1, 0, 1, 60, ONE}]

\* radii from -1 up to the radius of the engines, in steps of 1/RadiusSteps
KernelRadii ==
    {FDiv(k * ONE, RadiusSteps) : k \in -RadiusSteps .. RadiusSteps * Radius}

KernelArgs == [fn : {"buildKernel", "buildKernelDense"}, R : KernelRadii]

StepArgs == [fn : {"step"}, R : {r \in KernelRadii : r > 0}, P : Perturbations]

ClusterPts == 4

\* places 60 apart: neighbours along a row or a column are within the
\* radius, diagonal neighbours are not
Spots == {[x |-> 60 * CENT * k, y |-> 60 * CENT * m] : k \in 0 .. 2, m \in 0 .. 1}

\* particle lists of up to ClusterPts particles, with the two radii main uses
MixPts == 3

\* a particle at a place with a velocity
Moving(spot, v) ==
    [x |-> spot.x, y |-> spot.y, vx |-> v[1], vy |-> v[2], fx |-> 0, fy |-> 0,
     color |-> "", mass |-> 0, energy |-> 0]

MixVelocities == {<<0, 0>>, <<7, -3>>, <<-5, 4>>}

\* places in a window (not all within localRadius of each other), and
\* places on the torus of part_002 that are close around its edges
MixSpots(torus) ==
    IF torus
    THEN {[x |-> 2 * CENT, y |-> 2 * CENT], [x |-> 12 * CENT, y |-> 2 * CENT],
          [x |-> torusWidth - 2 * CENT, y |-> torusHeight - 2 * CENT]}
    ELSE {[x |-> 2 * CENT, y |-> 2 * CENT], [x |-> 12 * CENT, y |-> 2 * CENT],
          [x |-> 40 * CENT, y |-> 2 * CENT]}

MixLists(torus) ==
    UNION {[1 .. n -> {Moving(sp, v) : sp \in MixSpots(torus), v \in MixVelocities}] :
             n \in 0 .. MixPts}

MixArgs ==
    UNION {[fn : {"redistribute"}, ps : MixLists(t), torus : {t}] : t \in BOOLEAN}

ClusterArgs ==
    [fn : {"findClusters"},
     pts : UNION {[1 .. n -> Spots] : n \in 0 .. ClusterPts},
     radius : {80 * CENT, 67 * CENT}]

\* The engine NewGame builds when the radius handed to buildKernel is R
GameOfRadius(P, R) == [NewGame(P) EXCEPT !.kernel = buildKernel(R)]

\* the activity u of every cell, as step computes it
ActivityGrid(gm) == [y \in Rows |-> [x \in Cols |-> Activity(gm, y, x)]]

InitCalls ==
    /\ g = NewGame(<<>>)
    /\ h = g
    /\ sh = <<0, 0>>
    /\ tick0 = g
    /\ Still
    /\ args \in GrowthArgs \cup KernelArgs \cup StepArgs \cup ClusterArgs \cup MixArgs
    /\ ret = NoCall

CallGrowth ==
    /\ args.fn = "growth" /\ ret = NoCall
    /\ ret' = [fn |-> "growth", val |-> growth(args.u, args.mu, args.sigma)]
    /\ UNCHANGED <<g, pc, cursor, U, writes, tick0, ticks, drawn, h, sh, events, args, sim>>

\* Neither builder has an error result: it returns its kernel, whatever R.
CallBuildKernel ==
    /\ args.fn \in {"buildKernel", "buildKernelDense"} /\ ret = NoCall
    /\ ret' = [fn |-> args.fn, err |-> "none",
               kernel |-> IF args.fn = "buildKernel" THEN buildKernel(args.R)
                          ELSE buildKernelDense(args.R)]
    /\ UNCHANGED <<g, pc, cursor, U, writes, tick0, ticks, drawn, h, sh, events, args, sim>>

\* Construction with the radius args.R, then one step.
CallStep ==
    /\ args.fn = "step" /\ ret = NoCall
    /\ LET gm == GameOfRadius(args.P, args.R)
       IN  ret' = [fn |-> "step", err |-> "none", kernel |-> gm.kernel,
                   U |-> ActivityGrid(gm), after |-> step(gm)]
    /\ UNCHANGED <<g, pc, cursor, U, writes, tick0, ticks, drawn, h, sh, events, args, sim>>

CallFindClusters ==
    /\ args.fn = "findClusters" /\ ret = NoCall
    /\ ret' = [fn |-> "findClusters", clusters |-> findClusters(args.pts, args.radius)]
    /\ UNCHANGED <<g, pc, cursor, U, writes, tick0, ticks, drawn, h, sh, events, args, sim>>

\* the MaCE step on the whole particle list
CallRedistribute ==
    /\ args.fn = "redistribute" /\ ret = NoCall
    /\ ret' = [fn |-> "redistribute",
               ps |-> redistribute(args.ps, [k \in 1 .. Len(args.ps) |-> k], args.torus)]
    /\ UNCHANGED <<g, pc, cursor, U, writes, tick0, ticks, drawn, h, sh, events, args, sim>>

NextCalls ==
    CallGrowth \/ CallBuildKernel \/ CallStep \/ CallFindClusters \/ CallRedistribute

SpecCalls == InitCalls /\ [][NextCalls]_vars

(* C13: growth(u, mu, sigma) is exactly 0 whenever sigma <= 0; for         *)
(* sigma > 0 it is in [-1, 1] for every u, and it is 1 at u = mu.          *)
C13_GrowthValues ==
    ret.fn = "growth" =>
        /\ args.sigma <= 0 => ret.val = 0
        /\ args.sigma > 0 => /\ -ONE <= ret.val /\ ret.val <= ONE
                             /\ args.u = args.mu => ret.val = ONE

\* growth has returned a value strictly inside (-1, 1), off the peak
C13_Witness ==
    /\ ret.fn = "growth" /\ args.sigma > 0 /\ args.u # args.mu
    /\ -ONE < ret.val /\ ret.val < ONE /\ ret.val # 0

\* what a builder returns when it refuses its argument
NoKernel == <<>>

(* C14: called with a radius R <= 0, the kernel builder fails with         *)
(* InvalidParameter and returns no kernel.                                 *)
C14_NonPositiveRadiusFails ==
    (ret.fn \in {"buildKernel", "buildKernelDense"} /\ args.R <= 0) =>
        ret.err = "InvalidParameter" /\ ret.kernel = NoKernel

(* C15 as stated: for 0 < R < 1 construction and step raise no error and   *)
(* the activity of every cell is 0, whatever the field.                    *)
C15_SmallRadiusZeroActivity ==
    (ret.fn = "step" /\ 0 < args.R /\ args.R < ONE) =>
        ret.err = "none" /\ ret.U = ZeroGrid

(* C15, amended: for 0 < R < 1 construction and step raise no error, the   *)
(* kernel is the single offset (0, 0) with weight 1, and the activity      *)
(* field equals the current field.                                         *)
C15_SmallRadiusIdentityKernel ==
    (ret.fn = "step" /\ 0 < args.R /\ args.R < ONE) =>
        /\ ret.err = "none"
        /\ Len(ret.kernel) = 1
        /\ ret.kernel[1].dx = 0 /\ ret.kernel[1].dy = 0
        /\ ret.kernel[1].w.num = ret.kernel[1].w.den /\ ret.kernel[1].w.den > 0
        /\ ret.U = InitField(args.P)

\* A step with a radius of less than one cell that saw activity and
\* changed the field.
C15_Witness ==
    /\ ret.fn = "step" /\ 0 < args.R /\ args.R < ONE
    /\ ret.U # ZeroGrid
    /\ Cur(ret.after) # InitField(args.P)

----------------------------------------------------------------------------
\* every state of wheel, cursor, right button and W/A/S/D keys followed
CameraInputs ==
    [scrollY : {-1, 0, 1}, mx : {0, 10}, my : {0, 20}, right : BOOLEAN,
     keys : SUBSET {"W", "A", "S", "D"}]

\* gm with the view-transform fields of v
WithViewOf(gm, v) ==
    [gm EXCEPT !.camX = v.camX, !.camY = v.camY, !.camZoom = v.camZoom,
               !.lastMx = v.lastMx, !.lastMy = v.lastMy,
               !.rightDragging = v.rightDragging]

(* C16: handleCamera changes nothing but camX, camY, camZoom, lastMx,      *)
(* lastMy and rightDragging: for every input, in every state in which the  *)
(* host can call it, both buffers, the kernel and (mu, sigma, dt) stay as  *)
(* they are; so they do in the call that Update makes.                     *)
C16_CameraChangesViewOnly ==
    g.variant = "direct" =>
        /\ pc = "idle" =>
              \A in \in CameraInputs : WithViewOf(handleCamera(g, in), g) = g
        /\ (pc = "loop" /\ cursor = 0) => WithViewOf(g, tick0) = tick0

\* Update has just called handleCamera, in a second tick, and the view has
\* been zoomed, panned and put into dragging.
C16_Witness ==
    /\ g.variant = "direct" /\ pc = "loop" /\ cursor = 0 /\ ticks >= 1
    /\ g.camZoom # tick0.camZoom /\ g.camX # tick0.camX /\ g.camY # tick0.camY
    /\ g.rightDragging
    /\ Cur(g) # ZeroGrid

----------------------------------------------------------------------------
IsPrefix(a, b) == Len(a) <= Len(b) /\ a = SubSeq(b, 1, Len(a))

\* the grid U holds once the convolution of the running tick has run
ConvolutionDone == pc \in {"mod", "loop"}

\* the cells of next written so far all follow from the parameters p
WrittenWith(p) ==
    \A c \in Cells :
        CellIndex(c) < cursor =>
            Nxt(g)[c[1]][c[2]] = RuleCell(tick0, p, U, c[1], c[2])

(* C17 as stated: in a tick of the modulated engine the modulator advances *)
(* and republishes (mu, sigma) first, then the convolution computes U,     *)
(* then the cells of next are written, then the buffers swap.              *)
C17_ModulatorThenConvolution ==
    g.variant = "fft" =>
        /\ IsPrefix(events, <<"mod", "conv", "write", "swap">>)
        /\ ConvolutionDone => g.lorenz = LorenzStep(tick0.lorenz)

(* C17, amended: in a tick of the modulated engine the convolution         *)
(* computes U from the current field first; then the modulator advances    *)
(* and republishes (mu, sigma); then the cells of next are written; then   *)
(* the buffers swap.  All cells of one tick are written with the same      *)
(* (mu, sigma, dt), those the modulator published in this tick.            *)
C17_ConvolutionThenModulator ==
    g.variant = "fft" =>
        /\ IsPrefix(events, <<"conv", "mod", "write", "swap">>)
        /\ pc = "mod" =>
              /\ U = stepU(tick0)
              /\ g.lorenz = tick0.lorenz /\ Params(g) = Params(tick0)
        /\ pc = "loop" =>
              /\ g.lorenz = LorenzStep(tick0.lorenz)
              /\ Params(g) = Params(modulate(tick0))
              /\ WrittenWith(g)
              /\ g.A = tick0.A
        /\ (pc = "idle" /\ ticks >= 1) =>
              /\ events = <<"conv", "mod", "write", "swap">>
              /\ Params(g) = Params(modulate(tick0))
              /\ g.A = tick0.Anext

\* A second tick has run through all four phases and moved the parameters.
C17_Witness ==
    /\ g.variant = "fft" /\ pc = "idle" /\ ticks >= 2
    /\ events = <<"conv", "mod", "write", "swap">>
    /\ Params(g) # Params(tick0)
    /\ Cur(g) # Cur(tick0)

\* driver states far outside the attractor, on both sides
DriverStates ==
    [x : {-50 * ONE, 0, 50 * ONE}, y : {-2000 * ONE, 0, 2000 * ONE},
     z : {0, 50 * ONE}]

MuRange == 10 * MILLI .. ONE * MILLI
SigmaRange == MILLI .. ONE * MILLI

(* C18: the driver advances exactly one Euler step per tick; mu stays in   *)
(* [0.01, 1] and sigma in [0.001, 1] after every tick, and the mapping     *)
(* keeps them there from any values in these ranges and any driver state;  *)
(* the sigma handed to growth is therefore always positive.                *)
C18_OneStepAndClampedParams ==
    g.variant = "fft" =>
        /\ g.mu \in MuRange /\ g.sigma \in SigmaRange
        /\ FDiv(g.sigma, MILLI) > 0
        /\ (pc = "loop" \/ (pc = "idle" /\ ticks >= 1)) =>
              g.lorenz = LorenzStep(tick0.lorenz)
        /\ (pc = "idle" /\ ticks = 1) => g.lorenz = [x |-> 90, y |-> 28, z |-> 0]
        /\ pc = "idle" =>
              \A m \in {10 * MILLI, g.mu, ONE * MILLI},
                 sg \in {MILLI, g.sigma, ONE * MILLI}, l \in DriverStates :
                  LET p == genomeUpdate([g EXCEPT !.mu = m, !.sigma = sg], l)
                  IN  p.mu \in MuRange /\ p.sigma \in SigmaRange

\* Two ticks have each advanced the driver and nudged mu and sigma.
C18_Witness ==
    /\ g.variant = "fft" /\ pc = "idle" /\ ticks >= 2
    /\ g.lorenz # tick0.lorenz /\ tick0.lorenz # NewLorenz
    /\ g.mu # tick0.mu /\ g.sigma # tick0.sigma

(* C19: the engine keeps one fixed pair of field buffers: current and next *)
(* are always two different buffers of that pair, a tick creates no new    *)
(* grid, and after a tick the scratch buffer is the one that was current   *)
(* before it and the current buffer the one that was scratch.              *)
C19_FixedPairRolesSwap ==
    /\ g.A # g.Anext /\ {g.A, g.Anext} = {1, 2}
    /\ pc = "loop" => g.bufs[g.A] = tick0.bufs[tick0.A]
    /\ (pc = "idle" /\ ticks >= 1) =>
          /\ g.Anext = tick0.A /\ g.A = tick0.Anext
          /\ Nxt(g) = Cur(tick0)

(* C20: with no modulator, ticking leaves (mu, sigma, dt) and every kernel *)
(* weight at the values set at construction, after any number of step /    *)
(* Update calls and at every point inside them.                            *)
C20_ParamsAndKernelFixed ==
    /\ g.variant = "direct" =>
          /\ Params(g) = <<muDefault, sigDefault, dtDefault>>
          /\ g.kernel = SparseK
    /\ g.variant = "array" =>
          /\ Params(g) = <<muG, sigmaG, dtArr>>
          /\ g.kernel = <<>>

\* Two Update calls of the direct engine have completed and changed the
\* field and the frame counter.
C20_Witness ==
    /\ g.variant = "direct" /\ pc = "idle" /\ ticks >= 2
    /\ g.frame = ticks
    /\ Cur(g) # Cur(tick0)

----------------------------------------------------------------------------
\* values of ColorBias, tanh(z/30), on both sides of 0
BiasVals == {-ONE, ONE}

\* what a tick computes with: field, driver state and growth parameters
Dynamics(gm) == <<Cur(gm), gm.lorenz, Params(gm)>>

(* C21: ColorBias is read by the renderer only: two modulated engines that *)
(* agree on field, driver state and (mu, sigma, dt) and differ in          *)
(* ColorBias alone have the same field and the same (mu, sigma, dt) after  *)
(* a tick, and so after every tick.                                        *)
C21_ColorBiasLeavesDynamicsAlone ==
    (g.variant = "fft" /\ pc = "idle") =>
        LET t1 == stepFFT(g)
        IN  \A b \in BiasVals :
                LET t2 == stepFFT([g EXCEPT !.colorBias = b])
                IN  /\ Dynamics(t2) = Dynamics(t1)
                    /\ t2.colorBias = t1.colorBias

\* After a tick, an engine whose next tick changes the field and the
\* parameters, and another ColorBias to compare it with.
C21_Witness ==
    /\ g.variant = "fft" /\ pc = "idle" /\ ticks >= 1
    /\ \E b \in BiasVals : b # g.colorBias
    /\ Cur(stepFFT(g)) # Cur(g) /\ Params(stepFFT(g)) # Params(g)

\* the offsets around the origin that are looked at, for the radius R
OffsetsAround(R) == (-(Ceil(R) + 1) .. Ceil(R) + 1) \X (-(Ceil(R) + 1) .. Ceil(R) + 1)

\* how many entries of the kernel K have the offset o = <<dx, dy>>
EntriesAt(K, o) == Cardinality({i \in Indices(K) : K[i].dx = o[1] /\ K[i].dy = o[2]})

(* C22: for R > 0 the sparse kernel has exactly one entry for every        *)
(* integer offset with dx*dx + dy*dy <= R*R, the origin included, and none *)
(* for any other offset; entries at the same distance from the origin have *)
(* the same weight, so weight(dx, dy) = weight(-dx, -dy).                  *)
C22_KernelSupportAndSymmetry ==
    (ret.fn = "buildKernel" /\ args.R > 0) =>
        /\ \A o \in OffsetsAround(args.R) :
              EntriesAt(ret.kernel, o)
                = IF (o[1] * o[1] + o[2] * o[2]) * ONE * ONE <= args.R * args.R
                  THEN 1 ELSE 0
        /\ \A i \in Indices(ret.kernel) :
              <<ret.kernel[i].dx, ret.kernel[i].dy>> \in OffsetsAround(args.R)
        /\ \A i, j \in Indices(ret.kernel) :
              LET a == ret.kernel[i]
                  b == ret.kernel[j]
              IN  a.dx * a.dx + a.dy * a.dy = b.dx * b.dx + b.dy * b.dy
                    => a.w = b.w
        /\ \A i, j \in Indices(ret.kernel) :
              (ret.kernel[i].dx = -ret.kernel[j].dx
                 /\ ret.kernel[i].dy = -ret.kernel[j].dy)
                    => ret.kernel[i].w = ret.kernel[j].w

\* A kernel of integer radius 2 or more, whose axis offsets at distance
\* exactly R are in and whose corners are out.
C22_Witness ==
    /\ ret.fn = "buildKernel" /\ args.R >= 2 * ONE /\ args.R % ONE = 0
    /\ EntriesAt(ret.kernel, <<Ceil(args.R), 0>>) = 1
    /\ EntriesAt(ret.kernel, <<-Ceil(args.R), 0>>) = 1
    /\ EntriesAt(ret.kernel, <<Ceil(args.R), Ceil(args.R)>>) = 0
    /\ Len(ret.kernel) > 9

----------------------------------------------------------------------------
\* the particles linked to one of S by a chain of steps of at most radius
RECURSIVE ChainClosure(_, _, _)
ChainClosure(pts, radius, S) ==
    LET T == S \cup {j \in Indices(pts) : \E i \in S : withinRadius(pts, radius, i, j)}
    IN  IF T = S THEN S ELSE ChainClosure(pts, radius, T)

\* the places <<c, k>> at which the particle i is listed in the clusters cs
ListedAt(cs, i) == {ck \in Indices(cs) \X Indices(i[2]) : ck[2] <= Len(cs[ck[1]]) /\ cs[ck[1]][ck[2]] = i[1]}

\* the members of the cluster c
Members(cs, c) == {cs[c][k] : k \in Indices(cs[c])}

(* C30: findClusters returns for every particle list, and returns a        *)
(* partition: every particle is listed in exactly one cluster, exactly     *)
(* once, and two particles share a cluster exactly when a chain of         *)
(* particles with consecutive distances <= radius links them.              *)
C30_ClustersAreChainComponents ==
    ret.fn = "findClusters" =>
        /\ \A i \in Indices(args.pts) :
              Cardinality(ListedAt(ret.clusters, <<i, args.pts>>)) = 1
        /\ \A c \in Indices(ret.clusters) :
              /\ ret.clusters[c] # <<>>
              /\ Members(ret.clusters, c) \subseteq Indices(args.pts)
              /\ \A i \in Members(ret.clusters, c) :
                    Members(ret.clusters, c)
                      = ChainClosure(args.pts, args.radius, {i})

\* Two clusters, one of them holding two particles that are too far apart
\* to be linked directly.
C30_Witness ==
    /\ ret.fn = "findClusters" /\ Len(ret.clusters) >= 2
    /\ \E c \in Indices(ret.clusters) :
          \E i, j \in Members(ret.clusters, c) :
              ~withinRadius(args.pts, args.radius, i, j)

----------------------------------------------------------------------------
(* The particle programs as state machines.  world holds the particles     *)
(* (ps, addressed by their place in creation order), the global list and   *)
(* the colour lists (as lists of such places), the next statement of the   *)
(* main-loop callback (at) and the number of frames drawn.  pass holds the *)
(* shared WaitGroup counter, the rule call in progress and its worker      *)
(* goroutines.  log records what the workers of the current pass did.      *)

Yellow == "#FFFF00"
Red == "#FF0000"
Green == "#00FF00"

\* the reach of a rule in real, fibonacci22 and part_000 ("d > 80")
ruleReach == 80 * CENT

\* cv.Width() and cv.Height(): the window is created with width, height
canvasWidth(prog) ==
    IF prog = "mace" THEN 2700 * CENT
    ELSE IF prog = "part0" THEN 1700 * CENT ELSE 1080 * CENT

canvasHeight(prog) == IF prog \in {"mace", "part0"} THEN 1000 * CENT ELSE 1440 * CENT

\* particleSize: 5 in MaCE and part_000, 3.14159 in real and fibonacci22
particleSize(prog) == IF prog \in {"mace", "part0"} THEN 5 * CENT ELSE 314

massOf(color) ==
    IF color = Yellow THEN (massBase * 8) \div 10
    ELSE IF color = Red THEN (massBase * 12) \div 10 ELSE massBase

\* a particle as create makes it; real and fibonacci22 set x and y only,
\* part_000 sets the colour too, MaCE the colour, the mass and the energy
NewParticle(prog, spot, color) ==
    [x |-> spot.x, y |-> spot.y, vx |-> 0, vy |-> 0, fx |-> 0, fy |-> 0,
     color  |-> IF prog \in {"mace", "part0"} THEN color ELSE "",
     mass   |-> IF prog = "mace" THEN massOf(color) ELSE 0,
     energy |-> IF prog = "mace" THEN energyStart ELSE 0]

ColorOf(name) == IF name = "yellow" THEN Yellow ELSE IF name = "red" THEN Red ELSE Green

\* the order of the create calls in main
CreateOrder(prog) ==
    IF prog \in {"real", "fib"} THEN <<"green", "red", "yellow">>
    ELSE <<"yellow", "red", "green">>

\* the places in ps of the particles of the k-th create call
CreatedBy(prog, lay, k) ==
    LET o == CreateOrder(prog)
        before == IF k = 1 THEN 0
                  ELSE IF k = 2 THEN Len(lay[o[1]])
                  ELSE Len(lay[o[1]]) + Len(lay[o[2]])
    IN  [m \in 1 .. Len(lay[o[k]]) |-> before + m]

GroupOf(prog, lay, name) ==
    LET o == CreateOrder(prog)
    IN  CreatedBy(prog, lay, CHOOSE k \in 1 .. 3 : o[k] = name)

Created(prog, lay) ==
    LET o == CreateOrder(prog)
        mk(name) == [m \in 1 .. Len(lay[name]) |->
                        NewParticle(prog, lay[name][m], ColorOf(name))]
    IN  mk(o[1]) \o mk(o[2]) \o mk(o[3])

\* ps restricted to x and y, as findClusters reads it
Positions(ps, list) == [k \in 1 .. Len(list) |-> [x |-> ps[list[k]].x, y |-> ps[list[k]].y]]

\* the state main reaches before wnd.MainLoop
NewWorld(prog, lay, cap) ==
    LET ps == Created(prog, lay)
        all == [k \in 1 .. Len(ps) |-> k]
    IN  [prog |-> prog, ps |-> ps, particles |-> all,
         yellow |-> GroupOf(prog, lay, "yellow"),
         red |-> GroupOf(prog, lay, "red"),
         green |-> GroupOf(prog, lay, "green"),
         clusters |-> IF prog \in {"real", "fib"}
                      THEN findClusters(Positions(ps, all), 80 * CENT) ELSE <<>>,
         at |-> 1, frames |-> 0, cap |-> cap, idx |-> 0, f |-> 0,
         failed |-> FALSE]

\* the statements of the main-loop callback
RuleStmt(p1, p2, gc) == [op |-> "rule", p1 |-> p1, p2 |-> p2, g |-> gc]
Stmt(op) == [op |-> op, p1 |-> "", p2 |-> "", g |-> 0]

scale == 5
framesPerIndex == 60
indexCycle == 10

Script(w) ==
    IF w.prog = "mace" THEN
        <<RuleStmt("green", "green", -32), RuleStmt("red", "red", -10),
          RuleStmt("yellow", "yellow", 15), RuleStmt("green", "red", -17),
          RuleStmt("green", "yellow", 34), RuleStmt("red", "green", -34),
          RuleStmt("yellow", "green", -20), Stmt("updateWorld"), Stmt("draw")>>
    ELSE IF w.prog = "part0" THEN
        <<RuleStmt("green", "green", -32), RuleStmt("green", "red", -17),
          RuleStmt("green", "yellow", 34), RuleStmt("red", "red", -10),
          RuleStmt("red", "green", -34), RuleStmt("yellow", "yellow", 15),
          RuleStmt("yellow", "green", -20), Stmt("draw")>>
    ELSE IF w.prog = "real" THEN
        <<RuleStmt("green", "green", -162), RuleStmt("green", "red", 117),
          RuleStmt("green", "yellow", 34), RuleStmt("red", "red", 110),
          RuleStmt("red", "green", 134), RuleStmt("yellow", "yellow", 15),
          RuleStmt("yellow", "green", 120), Stmt("draw")>>
    ELSE
        LET fib5 == Fibonacci(5)
            fib3 == Fibonacci(3)
            fib1 == Fibonacci(1)
        IN  <<RuleStmt("red", "red", -(fib5 * scale)),
              RuleStmt("red", "green", fib3 * scale),
              RuleStmt("red", "yellow", -(fib3 * scale)),
              RuleStmt("yellow", "yellow", fib1 * scale),
              RuleStmt("yellow", "green", -20),
              RuleStmt("yellow", "red", -15),
              RuleStmt("green", "green", -(fib5 * scale)),
              RuleStmt("green", "red", -(fib3 * scale)),
              RuleStmt("green", "yellow", 20),
              Stmt("findClusters"), Stmt("index"),
              RuleStmt("red", "red", -(w.f * scale)),
              RuleStmt("red", "green", MulC(w.f * (CENT \div 2), scale)),
              RuleStmt("red", "yellow", MulC(-(w.f * ((4 * CENT) \div 10)), scale)),
              Stmt("draw")>>

\* "frameCount := 0; idx := (frameCount / 60) % 10; f := Fibonacci(idx)":
\* frameCount is declared in the callback, so every frame starts it at 0
pickIndex(w) ==
    LET frameCount == 0
        idx == (frameCount \div framesPerIndex) % indexCycle
    IN  [w EXCEPT !.idx = idx, !.f = Fibonacci(idx)]

----------------------------------------------------------------------------
(* The workers of rule.  A worker is [c, i, pc, j, fx, fy, ld]: the call   *)
(* that started it, its index, its position in the code, the loop index,   *)
(* its local sums (or the force of the pair in hand) and the values it     *)
(* has loaded for the statement it is executing.  A step returns the new   *)
(* store, the new worker, and the accesses it made to shared fields.       *)

NewWorker(c, i) ==
    [c |-> c, i |-> i,
     pc |-> IF c.prog = "mace" THEN "pair" ELSE "scan",
     j |-> IF c.prog = "mace" /\ c.self THEN i + 1 ELSE 1,
     fx |-> 0, fy |-> 0, ld |-> <<>>]

Access(kind, id, i) == [kind |-> kind, id |-> id, by |-> i]

\* MaCE: one pair (a, b); "a.fx += fx_ab" and the like load, then store
maceStep(ps, c, w) ==
    LET a == c.p1[w.i]
    IN  IF w.pc = "pair" THEN
            IF w.j > Len(c.p2) THEN
                [ps |-> ps, w |-> [w EXCEPT !.pc = "done"], acc |-> {}]
            ELSE
                LET b == c.p2[w.j]
                    dx == ps[a].x - ps[b].x
                    dy == ps[a].y - ps[b].y
                    distSq == dx * dx + dy * dy
                    d == SqrtC(distSq)
                    F == FDiv(c.g * ps[b].mass * CENT, d)
                    skip == \/ ~c.self /\ a = b
                            \/ distSq = 0
                            \/ d > maxForceDist
                IN  IF skip
                    THEN [ps |-> ps, w |-> [w EXCEPT !.j = @ + 1], acc |-> {}]
                    ELSE [ps |-> ps,
                          w |-> [w EXCEPT !.pc = "store",
                                          !.fx = FDiv(F * dx, CENT * CENT),
                                          !.fy = FDiv(F * dy, CENT * CENT),
                                          !.ld = <<ps[a].fx, ps[a].fy, ps[a].energy,
                                                   ps[b].energy, ps[b].fx, ps[b].fy, d>>],
                          acc |-> {}]
        ELSE
            LET b == c.p2[w.j]
                transfer == FDiv(predationRate * EU, ps[b].mass)
                eats == ps[a].color = Red /\ ps[b].color = Green
                          /\ w.ld[7] < predationRange
                raised == w.ld[3] + transfer
                p1 == [ps EXCEPT ![a].fx = w.ld[1] + w.fx, ![a].fy = w.ld[2] + w.fy]
                p2 == IF eats
                      THEN [p1 EXCEPT ![a].energy = IF raised < energyStart
                                                    THEN raised ELSE energyStart,
                                      ![b].energy = w.ld[4] - transfer]
                      ELSE p1
                p3 == IF c.self
                      THEN [p2 EXCEPT ![b].fx = w.ld[5] - w.fx, ![b].fy = w.ld[6] - w.fy]
                      ELSE p2
            IN  [ps |-> p3,
                 w |-> [w EXCEPT !.pc = "pair", !.j = @ + 1, !.fx = 0, !.fy = 0,
                                 !.ld = <<>>],
                 acc |-> {Access("fx", a, w.i)}
                           \cup (IF eats THEN {Access("energy", a, w.i),
                                               Access("energy", b, w.i)} ELSE {})
                           \cup (IF c.self THEN {Access("fx", b, w.i)} ELSE {})]

\* the reflection at the window's edges in rule of real and fibonacci22
bounce(prog, p) ==
    LET maxX == canvasWidth(prog) - particleSize(prog)
        maxY == canvasHeight(prog) - particleSize(prog)
        q == IF p.x <= 0 THEN [p EXCEPT !.vx = -@, !.x = 0]
             ELSE IF p.x >= maxX THEN [p EXCEPT !.vx = -@, !.x = maxX] ELSE p
    IN  IF q.y <= 0 THEN [q EXCEPT !.vy = -@, !.y = 0]
        ELSE IF q.y >= maxY THEN [q EXCEPT !.vy = -@, !.y = maxY] ELSE q

\* the end of a worker of real, fibonacci22 (lines 158-178) and part_000
\* (lines 228-229, which leaves the position alone)
chromaMove(prog, p, fx, fy) ==
    LET v == [p EXCEPT !.vx = FDiv(@ + fx, 2), !.vy = FDiv(@ + fy, 2)]
    IN  IF prog = "part0" THEN v
        ELSE bounce(prog, [v EXCEPT !.x = @ + v.vx, !.y = @ + v.vy])

\* real, fibonacci22, part_000: "dx, dy := a.x-b.x, a.y-b.y" reads b.x, then
\* b.y; after the loop the worker writes its own particle
chromaStep(ps, c, w) ==
    LET a == c.p1[w.i]
    IN  IF w.pc = "scan" THEN
            IF w.j > Len(c.p2)
            THEN [ps |-> ps, w |-> [w EXCEPT !.pc = "move"], acc |-> {}]
            ELSE [ps |-> ps,
                  w |-> [w EXCEPT !.pc = "scany", !.ld = <<ps[c.p2[w.j]].x>>],
                  acc |-> {Access("read", c.p2[w.j], w.i)}]
        ELSE IF w.pc = "scany" THEN
            LET b == c.p2[w.j]
                dx == ps[a].x - w.ld[1]
                dy == ps[a].y - ps[b].y
                d == SqrtC(dx * dx + dy * dy)
                F == FDiv(c.g * CENT * CENT, d)
                skip == (dx = 0 /\ dy = 0) \/ d > ruleReach
            IN  [ps |-> ps,
                 w |-> IF skip
                       THEN [w EXCEPT !.pc = "scan", !.j = @ + 1, !.ld = <<>>]
                       ELSE [w EXCEPT !.pc = "scan", !.j = @ + 1, !.ld = <<>>,
                                      !.fx = @ + FDiv(F * dx, CENT * CENT),
                                      !.fy = @ + FDiv(F * dy, CENT * CENT)],
                 acc |-> {Access("read", b, w.i)}]
        ELSE
            [ps |-> [ps EXCEPT ![a] = chromaMove(c.prog, @, w.fx, w.fy)],
             w |-> [w EXCEPT !.pc = "done", !.fx = 0, !.fy = 0],
             acc |-> IF c.prog = "part0" THEN {} ELSE {Access("write", a, w.i)}]

workerStep(ps, c, w) ==
    IF c.prog = "mace" THEN maceStep(ps, c, w) ELSE chromaStep(ps, c, w)

\* the workers of a call run one after the other, each to its end
RECURSIVE runWorker(_, _, _)
runWorker(ps, c, w) ==
    IF w.pc = "done" THEN ps
    ELSE LET r == workerStep(ps, c, w) IN runWorker(r.ps, c, r.w)

RECURSIVE runInOrder(_, _, _)
runInOrder(ps, c, i) ==
    IF i > Len(c.p1) THEN ps
    ELSE runInOrder(runWorker(ps, c, NewWorker(c, i)), c, i + 1)

----------------------------------------------------------------------------
(* The position update of part_000's rule and updateWorld of MaCE.main.go. *)

\* the reflection at the window's edges in updateWorld and part_000's rule
reflect(prog, p) ==
    LET maxX == canvasWidth(prog) - particleSize(prog)
        maxY == canvasHeight(prog) - particleSize(prog)
        q == IF p.x < 0 THEN [p EXCEPT !.vx = -@, !.x = 0]
             ELSE IF p.x > maxX THEN [p EXCEPT !.vx = -@, !.x = maxX] ELSE p
    IN  IF q.y < 0 THEN [q EXCEPT !.vy = -@, !.y = 0]
        ELSE IF q.y > maxY THEN [q EXCEPT !.vy = -@, !.y = maxY] ELSE q

InList(list, id) == \E k \in 1 .. Len(list) : list[k] = id

\* part_000: what rule does after wg.Wait()
ruleTail(w) ==
    LET p1 == redistribute(w.ps, w.particles, FALSE)
    IN  [w EXCEPT !.ps = [id \in 1 .. Len(p1) |->
                            IF InList(w.particles, id)
                            THEN reflect(w.prog, [p1[id] EXCEPT !.x = @ + p1[id].vx,
                                                                !.y = @ + p1[id].vy])
                            ELSE p1[id]]]

\* every listed particle of the colour is kept, whatever its energy
KeepAll(list, ps, color) ==
    SelectSeq(list, LAMBDA id : color = "" \/ ps[id].color = color)

\* updateWorld, "if p.energy > 0": the listed particles that stay (of one
\* colour, or of any for the global list), in the order of the list
Keep(list, ps, color) ==
    SelectSeq(list, LAMBDA id : ps[id].energy > 0 /\ (color = "" \/ ps[id].color = color))

\* updateWorld of MaCE.main.go
updateWorld(w) ==
    LET forced == [id \in 1 .. Len(w.ps) |->
                     IF InList(w.particles, id)
                     THEN [w.ps[id] EXCEPT !.vx = FDiv(@ + w.ps[id].fx, 2),
                                           !.vy = FDiv(@ + w.ps[id].fy, 2),
                                           !.fx = 0, !.fy = 0]
                     ELSE w.ps[id]]
        mixed == redistribute(forced, w.particles, FALSE)
        advance(p) ==
            LET q == [p EXCEPT !.x = @ + p.vx, !.y = @ + p.vy]
                speed == SqrtC(q.vx * q.vx + q.vy * q.vy)
            IN  reflect(w.prog,
                        [q EXCEPT !.energy = @ - FDiv(energyCostMove * speed, CENT)])
        moved == [id \in 1 .. Len(mixed) |->
                    IF InList(w.particles, id) THEN advance(mixed[id]) ELSE mixed[id]]
    IN  [w EXCEPT !.ps = moved,
                  !.particles = Keep(w.particles, moved, ""),
                  !.yellow = Keep(w.particles, moved, Yellow),
                  !.red = Keep(w.particles, moved, Red),
                  !.green = Keep(w.particles, moved, Green)]

----------------------------------------------------------------------------
(* The main loop of a particle program, rule call by rule call.            *)

LifeFrames == 70
MaxFrames == 1

Spot(px, py) == [x |-> px * CENT, y |-> py * CENT]

\* one particle of each colour, the red one within predationRange of the
\* green one
LoneLayout ==
    [yellow |-> <<Spot(100, 100)>>, red |-> <<Spot(110, 100)>>,
     green |-> <<Spot(113, 100)>>]

\* three green particles within reach of each other
CrowdLayout ==
    [yellow |-> <<Spot(110, 100)>>, red |-> <<Spot(106, 104)>>,
     green |-> <<Spot(100, 100), Spot(104, 100), Spot(100, 103)>>]

\* two green particles within reach of each other
PairLayout ==
    [yellow |-> <<Spot(110, 100)>>, red |-> <<Spot(106, 104)>>,
     green |-> <<Spot(100, 100), Spot(104, 101)>>]

Worlds ==
    {NewWorld("mace", LoneLayout, LifeFrames), NewWorld("fib", LoneLayout, LifeFrames),
     NewWorld("mace", CrowdLayout, MaxFrames), NewWorld("real", PairLayout, MaxFrames),
     NewWorld("part0", PairLayout, MaxFrames)}

NoCallOfRule == [prog |-> "", n |-> 0, p1 |-> <<>>, p2 |-> <<>>, g |-> 0, self |-> FALSE]
NoPass == [active |-> FALSE, call |-> NoCallOfRule, wgc |-> 0, gor |-> {}]
NoLog == [acc |-> {}, expect |-> <<>>, listed |-> <<>>, removed |-> {}]

InitSim ==
    /\ g = NewGame(<<>>)
    /\ h = g
    /\ sh = <<0, 0>>
    /\ tick0 = g
    /\ AtRest
    /\ args = NoCall /\ ret = NoCall
    /\ world \in Worlds
    /\ pass = NoPass
    /\ log = NoLog

lenia == <<g, pc, cursor, U, writes, tick0, ticks, drawn, h, sh, events, args, ret>>

\* the callback is running and has statements left
Running == ~world.failed /\ world.frames < world.cap /\ ~pass.active

Current == Script(world)[world.at]

Live(gor) == {w \in gor : w.pc # "done"}

\* rule up to wg.Wait(): wg.Add, the test of line 97 in MaCE (which takes
\* the address of element 0 of both slices), the go statements
RuleCall ==
    /\ Running /\ Current.op = "rule"
    /\ LET p1 == world[Current.p1]
           p2 == world[Current.p2]
           c == [prog |-> world.prog, n |-> pass.call.n + 1, p1 |-> p1, p2 |-> p2,
                 g |-> Current.g,
                 self |-> world.prog = "mace" /\ Current.p1 = Current.p2]
           outOfRange == world.prog = "mace" /\ (p1 = <<>> \/ p2 = <<>>)
       IN  IF outOfRange
           THEN /\ world' = [world EXCEPT !.failed = TRUE]
                /\ pass' = [pass EXCEPT !.wgc = @ + Len(p1)]
                /\ log' = log
           ELSE /\ world' = world
                /\ pass' = [active |-> TRUE, call |-> c, wgc |-> pass.wgc + Len(p1),
                            gor |-> Live(pass.gor)
                                      \cup {NewWorker(c, i) : i \in 1 .. Len(p1)}]
                /\ log' = [log EXCEPT !.acc = {},
                                      !.expect = runInOrder(world.ps, c, 1)]
    /\ UNCHANGED lenia

\* one step of one worker; "defer wg.Done()" runs as the worker ends
Work ==
    /\ ~world.failed
    /\ \E w \in Live(pass.gor) :
          LET r == workerStep(world.ps, w.c, w)
          IN  /\ world' = [world EXCEPT !.ps = r.ps]
              /\ pass' = [pass EXCEPT !.gor = (@ \ {w}) \cup {r.w},
                                      !.wgc = IF r.w.pc = "done" THEN @ - 1 ELSE @]
              /\ log' = [log EXCEPT !.acc = @ \cup r.acc]
    /\ UNCHANGED lenia

\* rule goes on without waiting
waitSkipped(counter) == TRUE

\* wg.Wait() lets rule go on when the counter is 0
waitDone(counter) == counter = 0

\* wg.Wait() and what follows it in rule
RuleReturn ==
    /\ ~world.failed /\ pass.active /\ waitDone(pass.wgc)
    /\ world' = [(IF world.prog = "part0" THEN ruleTail(world) ELSE world)
                   EXCEPT !.at = @ + 1]
    /\ pass' = [pass EXCEPT !.active = FALSE]
    /\ log' = log
    /\ UNCHANGED lenia

UpdateWorld ==
    /\ Running /\ Current.op = "updateWorld"
    /\ world' = [updateWorld(world) EXCEPT !.at = @ + 1]
    /\ log' = [log EXCEPT !.listed = world.particles,
                          !.removed = @ \cup {id \in 1 .. Len(world.ps) :
                                                /\ InList(world.particles, id)
                                                /\ ~InList(world'.particles, id)}]
    /\ UNCHANGED <<pass, lenia>>

\* fibonacci22: clusters = findClusters(particles, 67)
Recluster ==
    /\ Running /\ Current.op = "findClusters"
    /\ world' = [world EXCEPT !.at = @ + 1,
                   !.clusters = findClusters(Positions(world.ps, world.particles),
                                             67 * CENT)]
    /\ UNCHANGED <<pass, log, lenia>>

PickIndex ==
    /\ Running /\ Current.op = "index"
    /\ world' = [pickIndex(world) EXCEPT !.at = @ + 1]
    /\ UNCHANGED <<pass, log, lenia>>

\* the end of the callback: the particles are drawn, the frame is shown
DrawAll ==
    /\ Running /\ Current.op = "draw"
    /\ world' = [world EXCEPT !.at = 1, !.frames = @ + 1]
    /\ UNCHANGED <<pass, log, lenia>>

NextSim == RuleCall \/ Work \/ RuleReturn \/ UpdateWorld \/ Recluster \/ PickIndex \/ DrawAll

SpecSim == InitSim /\ [][NextSim]_vars

----------------------------------------------------------------------------
\* the accesses of one kind the workers of the current pass have made
Accesses(kind) == {e \in log.acc : e.kind = kind}

(* C23: in MaCE's rule, during a pass, the accumulators fx and fy of a     *)
(* particle are written only by the goroutine whose index selects that     *)
(* particle in particles1, in self-interaction passes as in cross passes.  *)
C23_AccumulatorsHaveOneWriter ==
    world.prog = "mace" =>
        \A e \in Accesses("fx") : pass.call.p1[e.by] = e.id

(* C24: in the rule of real and fibonacci22, which moves the particles in  *)
(* the workers, no worker reads the position of a particle that another    *)
(* worker writes in the same pass, and when all workers of a pass have     *)
(* finished the particles are what the workers produce run one by one.     *)
C24_PassIndependentOfInterleaving ==
    world.prog \in {"real", "fib"} =>
        /\ \A e \in Accesses("write"), f \in Accesses("read") :
              e.id = f.id => e.by = f.by
        /\ (pass.active /\ pass.wgc = 0) => world.ps = log.expect

\* the workers the current call started
Started == {w \in pass.gor : w.c.n = pass.call.n}

(* C25: the WaitGroup counter is raised by len(particles1) before a worker *)
(* starts and lowered once by each worker as it ends, so it counts the     *)
(* unfinished workers; rule returns only when it is 0, with every worker   *)
(* it started finished; a worker that runs belongs to the current call.    *)
C25_RuleWaitsForItsWorkers ==
    /\ pass.wgc = Cardinality(Live(pass.gor))
    /\ pass.active => Cardinality(Started) = Len(pass.call.p1)
    /\ ~pass.active => pass.wgc = 0 /\ Live(pass.gor) = {}
    /\ Live(pass.gor) \subseteq Started

\* A second or later call has returned after its two or more workers ended.
C25_Witness ==
    /\ ~pass.active /\ pass.call.n >= 2
    /\ Len(pass.call.p1) >= 2
    /\ Cardinality(Started) = Len(pass.call.p1)

(* C26: in MaCE.main.go every rule call of the main loop completes without *)
(* a runtime failure, also after a colour group has lost all particles.    *)
C26_RuleCallsNeverFail == world.prog = "mace" => ~world.failed

\* updateWorld has just run
AfterUpdate(w) == w.prog = "mace" /\ w.at > 1 /\ Script(w)[w.at - 1].op = "updateWorld"

SetOf(list) == {list[k] : k \in 1 .. Len(list)}

NoRepeats(list) == Cardinality(SetOf(list)) = Len(list)

\* what C27 says of the lists after an updateWorld call that started with
\* the global list was
ListsSettled(w, was) ==
    /\ SetOf(w.particles) = {id \in SetOf(was) : w.ps[id].energy > 0}
    /\ NoRepeats(w.particles)
    /\ SetOf(w.yellow) \cap SetOf(w.red) = {}
    /\ SetOf(w.yellow) \cap SetOf(w.green) = {}
    /\ SetOf(w.red) \cap SetOf(w.green) = {}
    /\ SetOf(w.yellow) \cup SetOf(w.red) \cup SetOf(w.green) = SetOf(w.particles)
    /\ Len(w.yellow) + Len(w.red) + Len(w.green) = Len(w.particles)
    /\ \A id \in SetOf(w.particles) : w.ps[id].fx = 0 /\ w.ps[id].fy = 0

(* C27: after every updateWorld call the global list holds exactly the     *)
(* particles that had energy > 0 at its end, the colour lists are disjoint *)
(* with the global list as their union, every listed particle has          *)
(* fx = fy = 0; a removed particle is never listed again and no            *)
(* population count ever grows.                                            *)
C27_UpdateWorldSettlesLists ==
    [][world.prog = "mace" =>
          /\ AfterUpdate(world') /\ ~AfterUpdate(world)
                => ListsSettled(world', world.particles)
          /\ SetOf(world'.particles) \cap log.removed = {}
          /\ Len(world'.particles) <= Len(world.particles)
          /\ Len(world'.yellow) <= Len(world.yellow)
          /\ Len(world'.red) <= Len(world.red)
          /\ Len(world'.green) <= Len(world.green)]_vars

\* updateWorld has just removed a particle
C27_Witness ==
    /\ AfterUpdate(world) /\ log.removed # {}
    /\ Len(world.particles) < Len(log.listed)

(* C29: in fibonacci22's main loop the index that selects the Fibonacci    *)
(* multiplier of the extra red forces follows the frames drawn: in the     *)
(* frame after n rendered frames it is (n / 60) % 10.                      *)
C29_IndexFollowsFrames ==
    (world.prog = "fib" /\ world.at > 1 /\ Script(world)[world.at - 1].op = "index")
        => world.idx = (world.frames \div framesPerIndex) % indexCycle

----------------------------------------------------------------------------
\* the sums of the velocities of the particles 1 .. k
RECURSIVE TotalV(_, _)
TotalV(ps, k) ==
    IF k = 0 THEN <<0, 0>>
    ELSE LET t == TotalV(ps, k - 1) IN <<t[1] + ps[k].vx, t[2] + ps[k].vy>>

\* the pairs of the list the redistribution looks at
PairsOf(ps) == {ab \in Indices(ps) \X Indices(ps) : ab[1] < ab[2]}

(* C28: the MaCE redistribution conserves momentum: an exchange leaves     *)
(* a.vx + b.vx and a.vy + b.vy of its pair as they were (and moves no      *)
(* particle), so the sums of the velocities over all particles are the     *)
(* same after the whole loop as before it.                                 *)
C28_RedistributionConservesMomentum ==
    ret.fn = "redistribute" =>
        /\ \A ab \in PairsOf(args.ps) :
              LET q == exchange(args.ps, ab[1], ab[2])
              IN  /\ q[ab[1]].vx + q[ab[2]].vx = args.ps[ab[1]].vx + args.ps[ab[2]].vx
                  /\ q[ab[1]].vy + q[ab[2]].vy = args.ps[ab[1]].vy + args.ps[ab[2]].vy
        /\ TotalV(ret.ps, Len(ret.ps)) = TotalV(args.ps, Len(args.ps))
        /\ Len(ret.ps) = Len(args.ps)
        /\ \A k \in Indices(ret.ps) :
              ret.ps[k].x = args.ps[k].x /\ ret.ps[k].y = args.ps[k].y

\* The loop exchanged velocities in two or more pairs, one of them close
\* only around the edges of the torus.
C28_Witness ==
    /\ ret.fn = "redistribute" /\ ret.ps # args.ps /\ args.torus
    /\ Cardinality({ab \in PairsOf(args.ps) :
                      closeBy(args.ps, ab[1], ab[2], TRUE)}) >= 2
    /\ \E ab \in PairsOf(args.ps) :
          /\ closeBy(args.ps, ab[1], ab[2], TRUE)
          /\ args.ps[ab[2]].x - args.ps[ab[1]].x > torusWidth \div 2

=============================================================================
